---------------------------- MODULE Spec2Model ----------------------------
(***************************************************************************)
(* Clipboard synchronisation core of CopyPasteEverything: the chunked      *)
(* transfer engine (src/src/chunked_transfer.py), the spoke session        *)
(* (src/src/client.py) and the hub (src/src/server.py).                    *)
(*                                                                         *)
(* Bytes are small naturals, a byte string is a sequence of them.  MD5 is  *)
(* modelled as an injective digest (collisions are outside the model).     *)
(* base64 maps every byte to two symbols; the zstd compressor is modelled  *)
(* by run-length encoding, which like zstd may or may not shorten its      *)
(* input.                                                                  *)
(***************************************************************************)
EXTENDS Naturals, Sequences, FiniteSets, TLC

VARIABLES
    cfg,             \* config: chunk_size, chunk_threshold, resume_enabled
    \* ---- receiving engine (ChunkedTransferManager of the receiving spoke)
    incoming,        \* _incoming: dict transfer_id -> TransferTask
    incoming_data,   \* _incoming_data: dict transfer_id -> bytearray
    state_file,      \* transfer_state.json: dict transfer_id -> saved task
    partial_files,   \* <transfer_id>.partial files: dict transfer_id -> bytes
    reply,           \* what the last engine call returned
    ev,              \* what the last step did (observer calls, history)
    delivered,       \* the on_clipboard_received calls of the last step, in order
    lastInit,        \* history: the previous handle_transfer_init of a transfer
    sc,              \* scenario driver (position of the peer in a scenario)
    \* ---- sending side (ClipboardClient of the spoke; in SpecHub the hub's
    \*      own ChunkedTransferManager)
    connected,       \* ClipboardClient._connected
    last_hash,       \* ClipboardClient._last_hash ("" is 0)
    outgoing,        \* _outgoing: dict transfer_id -> TransferTask
    outgoing_data,   \* _outgoing_data: dict transfer_id -> bytes
    hist,            \* history of the spoke: what it emitted, and when
    \* ---- hub (ClipboardServer)
    clients,         \* _clients: the registered sessions
    conn,            \* state of each session's websocket
    routes,          \* _chunked_transfers: transfer_id -> (origin, filename)
    hub_last_hash,   \* ClipboardServer._last_hash
    pending_chunks,  \* ClipboardServer._pending_chunks
    \* ---- wire
    sends,           \* the websocket sends of the last step, in order
    net,             \* messages in flight, one queue per direction of a link
    \* ---- threads around the session
    session,         \* ClipboardClient: _running, _reconnect_delay, _websocket,
                     \* the event loop, and where _connect and stop() stand
    monitor,         \* ClipboardMonitor: _last_hash, _paused, _lock, the OS
                     \* clipboard, and where _monitor_loop and a setter stand
    \* ---- history
    history          \* HistoryManager: the rows of clipboard_history and the
                     \* AUTOINCREMENT sequence

engineVars == <<incoming, incoming_data, state_file, partial_files, reply,
                delivered, lastInit>>
spokeVars == <<connected, last_hash, outgoing, outgoing_data, hist>>
hubVars == <<clients, conn, routes, hub_last_hash, pending_chunks>>
wireVars == <<sends, net>>
vars == <<cfg, incoming, incoming_data, state_file, partial_files, reply, ev,
          delivered, lastInit, sc, connected, last_hash, outgoing,
          outgoing_data, hist, clients, conn, routes, hub_last_hash,
          pending_chunks, sends, net, session, monitor, history>>

---------------------------------------------------------------------------
(* Bounds of the model *)

\* number of chunks of the file in the free-environment engine specification
EngChunks == 2
\* chunk deliveries accepted beyond total_chunks (duplicates) before the
\* environment stops
MaxExtra == 1
\* chunk_size configured in the free-environment engine specification
EngChunkSize == 2
\* number of chunks of the file in the resume scenario
ResumeChunks == 12
\* chunk_threshold configured on the spoke (files of at least this many bytes
\* go chunked)
SpokeThreshold == 3
\* prepare_send calls of one spoke before its user stops copying large files
MaxTransfers == 1
\* connections one spoke opens before the network stays down
MaxConnects == 2
\* number of chunks of the file in the relay scenario
RelayChunks == 3
\* chunk envelopes damaged in transit in the relay scenario
MaxCorrupt == 1

Tids == {"t1"}

---------------------------------------------------------------------------
(* Byte strings *)

Min(a, b) == IF a < b THEN a ELSE b
Max(a, b) == IF a > b THEN a ELSE b

\* bytearray(n)
Zeros(n) == [i \in 1..n |-> 0]

\* data[offset : offset + size]  (Python slice: clipped to the string)
Slice(data, offset, size) ==
    SubSeq(data, offset + 1, Min(offset + size, Len(data)))

\* buffer[offset : offset + len(chunk)] = chunk   (Python slice assignment)
WriteAt(buffer, offset, chunk) ==
    SubSeq(buffer, 1, Min(offset, Len(buffer))) \o chunk
        \o SubSeq(buffer, offset + Len(chunk) + 1, Len(buffer))

\* the k-th sample file of n bytes; pattern 0 is the all-zero file
SampleFile(n, k) == [i \in 1..n |-> (i * k) % 3]

\* the digests are numbers below DigestSpace
DigestSpace == 536870909

RECURSIVE MD5(_)
\* hashlib.md5(data).hexdigest(): a digest of the byte string, injective on
\* strings of up to 13 bytes
MD5(data) ==
    IF data = <<>> THEN 1
    ELSE (MD5(SubSeq(data, 1, Len(data) - 1)) * 4 + data[Len(data)])
            % DigestSpace

calculate_file_hash(data) == MD5(data)

\* None, where a message or a task is expected
NoReply == [type |-> "none"]

SetToSeq(S) ==
    LET RECURSIVE build(_)
        build(T) == IF T = {} THEN <<>>
                    ELSE LET m == CHOOSE x \in T : \A y \in T : x <= y
                         IN <<m>> \o build(T \ {m})
    IN build(S)

SeqToSet(s) == {s[i] : i \in 1..Len(s)}

---------------------------------------------------------------------------
(* Codec: src/src/compression.py *)

\* byte counts are scaled down like the chunk size: 4 stands for the 512 of
\* the source, so that inputs on both sides of it stay small
MIN_COMPRESS_SIZE == 4

RECURSIVE Rle(_)
\* _compressor.compress: run-length pairs <<count, byte>>, runs of at most 3
Rle(data) ==
    IF data = <<>> THEN <<>>
    ELSE LET b == data[1]
             run == CHOOSE n \in 1..Min(3, Len(data)) :
                       /\ \A i \in 1..n : data[i] = b
                       /\ (n = 3 \/ n = Len(data) \/ data[n + 1] # b)
         IN <<run, b>> \o Rle(SubSeq(data, run + 1, Len(data)))

RECURSIVE UnRle(_)
\* _decompressor.decompress: not ok on a malformed stream
UnRle(c) ==
    IF c = <<>> THEN [ok |-> TRUE, val |-> <<>>]
    ELSE IF Len(c) < 2 \/ c[1] = 0 THEN [ok |-> FALSE, val |-> <<>>]
    ELSE LET rest == UnRle(SubSeq(c, 3, Len(c)))
         IN IF ~rest.ok THEN rest
            ELSE [ok |-> TRUE, val |-> [i \in 1..c[1] |-> c[2]] \o rest.val]

\* mutant: the compressed form is used whether or not it is shorter
compress_data_Always(data) ==
    IF Len(data) < MIN_COMPRESS_SIZE THEN <<data, FALSE>>
    ELSE <<Rle(data), TRUE>>

compress_data(data) ==
    IF Len(data) < MIN_COMPRESS_SIZE THEN <<data, FALSE>>
    ELSE LET compressed == Rle(data)
         IN IF Len(compressed) < Len(data) THEN <<compressed, TRUE>>
            ELSE <<data, FALSE>>

decompress_data(data, is_compressed) ==
    IF ~is_compressed THEN [ok |-> TRUE, val |-> data] ELSE UnRle(data)

RECURSIVE encode_for_json(_)
\* base64.b64encode: two symbols (0 or 1 each) per byte
encode_for_json(data) ==
    IF data = <<>> THEN <<>>
    ELSE <<data[1] \div 2, data[1] % 2>> \o encode_for_json(Tail(data))

RECURSIVE decode_from_json(_)
\* base64.b64decode: not ok (binascii.Error) on a truncated or foreign
\* symbol string
decode_from_json(str) ==
    IF str = <<>> THEN [ok |-> TRUE, val |-> <<>>]
    ELSE IF Len(str) < 2 \/ str[1] \notin {0, 1} \/ str[2] \notin {0, 1}
         THEN [ok |-> FALSE, val |-> <<>>]
    ELSE LET rest == decode_from_json(SubSeq(str, 3, Len(str)))
         IN IF ~rest.ok THEN rest
            ELSE [ok |-> TRUE, val |-> <<str[1] * 2 + str[2]>> \o rest.val]

compress_and_encode(data) ==
    LET c == compress_data(data)
    IN <<encode_for_json(c[1]), c[2]>>

\* raises (ok = FALSE) when either step raises
decode_and_decompress(str, is_compressed) ==
    LET decoded == decode_from_json(str)
    IN IF ~decoded.ok THEN decoded
       ELSE decompress_data(decoded.val, is_compressed)

---------------------------------------------------------------------------
(* Chunk plan and transfer tasks: src/src/chunked_transfer.py *)

RECURSIVE PlanLoop_FullWindows(_, _, _, _)
\* mutant: every descriptor is given the configured chunk size
PlanLoop_FullWindows(data, chunk_size, offset, chunks) ==
    IF offset < Len(data)
    THEN LET chunk_data == Slice(data, offset, chunk_size)
         IN PlanLoop_FullWindows(data, chunk_size, offset + Len(chunk_data),
                     Append(chunks, [chunk_index |-> Len(chunks),
                                     offset      |-> offset,
                                     size        |-> chunk_size,
                                     checksum    |-> MD5(chunk_data),
                                     transferred |-> FALSE,
                                     received    |-> FALSE]))
    ELSE chunks

RECURSIVE PlanLoop(_, _, _, _)
\* the while loop of prepare_send: one ChunkInfo per chunk_size window
PlanLoop(data, chunk_size, offset, chunks) ==
    IF offset < Len(data)
    THEN LET chunk_data == Slice(data, offset, chunk_size)
         IN PlanLoop(data, chunk_size, offset + Len(chunk_data),
                     Append(chunks, [chunk_index |-> Len(chunks),
                                     offset      |-> offset,
                                     size        |-> Len(chunk_data),
                                     checksum    |-> MD5(chunk_data),
                                     transferred |-> FALSE,
                                     received    |-> FALSE]))
    ELSE chunks

\* the TransferTask prepare_send records for `data` (state Pending)
NewOutgoingTask(transfer_id, filename, data, chunk_size) ==
    LET chunks == PlanLoop(data, chunk_size, 0, <<>>)
    IN [transfer_id        |-> transfer_id,
        filename           |-> filename,
        file_size          |-> Len(data),
        file_hash          |-> calculate_file_hash(data),
        total_chunks       |-> Len(chunks),
        chunk_size         |-> chunk_size,
        chunks             |-> chunks,
        state              |-> "pending",
        transferred_chunks |-> 0]

\* mutant: a file of exactly chunk_threshold bytes is refused
prepare_send_Above(transfer_id, filename, data) ==
    IF Len(data) <= cfg.chunk_threshold THEN [ok |-> FALSE, task |-> NoReply]
    ELSE [ok   |-> TRUE,
          task |-> NewOutgoingTask(transfer_id, filename, data, cfg.chunk_size)]

\* prepare_send(filename, data): not ok where it returns None
prepare_send(transfer_id, filename, data) ==
    IF Len(data) < cfg.chunk_threshold THEN [ok |-> FALSE, task |-> NoReply]
    ELSE [ok   |-> TRUE,
          task |-> NewOutgoingTask(transfer_id, filename, data, cfg.chunk_size)]

get_transfer_init_message(task) ==
    [type         |-> "chunked_transfer_init",
     transfer_id  |-> task.transfer_id,
     filename     |-> task.filename,
     file_size    |-> task.file_size,
     file_hash    |-> task.file_hash,
     total_chunks |-> task.total_chunks,
     chunk_size   |-> task.chunk_size,
     chunks       |-> [i \in 1..Len(task.chunks) |->
                        [chunk_index |-> task.chunks[i].chunk_index,
                         offset      |-> task.chunks[i].offset,
                         size        |-> task.chunks[i].size,
                         checksum    |-> task.chunks[i].checksum]]]

\* the chunk_data envelope get_chunk_data builds from a task and its bytes
ChunkEnvelope(task, data, chunk_index) ==
    LET chunk_info == task.chunks[chunk_index + 1]
        chunk_data == Slice(data, chunk_info.offset, chunk_info.size)
        enc        == compress_and_encode(chunk_data)
    IN [type        |-> "chunk_data",
        transfer_id |-> task.transfer_id,
        chunk_index |-> chunk_index,
        offset      |-> chunk_info.offset,
        size        |-> chunk_info.size,
        checksum    |-> chunk_info.checksum,
        data        |-> enc[1],
        compressed  |-> enc[2]]

\* mutant: the transferred flag is ignored
get_pending_chunks_AllChunks(task) ==
    [i \in 1..Len(task.chunks) |-> task.chunks[i].chunk_index]

\* task.get_pending_chunks(), as the list of their indices
get_pending_chunks(task) ==
    SetToSeq({task.chunks[i].chunk_index : i \in
                 {j \in 1..Len(task.chunks) : ~task.chunks[j].transferred}})

\* TransferTask.to_dict / from_dict: `received` is not persisted
to_dict(task) ==
    [task EXCEPT !.chunks = [i \in 1..Len(task.chunks) |->
                               [task.chunks[i] EXCEPT !.received = FALSE]]]

from_dict(d) == d

\* dict.pop(key, None)
Pop(dict, key) == [k \in (DOMAIN dict) \ {key} |-> dict[k]]

\* dict[key] = value
Put(dict, key, value) ==
    [k \in (DOMAIN dict) \cup {key} |-> IF k = key THEN value ELSE dict[k]]

EmptyDict == [k \in {} |-> 0]


---------------------------------------------------------------------------
(* Clipboard items: src/src/clipboard_monitor.py *)

RECURSIVE utf8_encode(_)
\* str.encode('utf-8'): characters 0..2 take one byte, characters 3..5 take a
\* lead byte 3 and a continuation byte
utf8_encode(text) ==
    IF text = <<>> THEN <<>>
    ELSE (IF text[1] < 3 THEN <<text[1]>> ELSE <<3, text[1] - 3>>)
            \o utf8_encode(Tail(text))

RECURSIVE utf8_decode(_)
\* bytes.decode('utf-8'): not ok (UnicodeDecodeError) on a lead byte without
\* its continuation byte
utf8_decode(bytes) ==
    IF bytes = <<>> THEN [ok |-> TRUE, val |-> <<>>]
    ELSE IF bytes[1] < 3
    THEN LET rest == utf8_decode(Tail(bytes))
         IN IF ~rest.ok THEN rest
            ELSE [ok |-> TRUE, val |-> <<bytes[1]>> \o rest.val]
    ELSE IF Len(bytes) < 2 \/ bytes[2] = 3 THEN [ok |-> FALSE, val |-> <<>>]
    ELSE LET rest == utf8_decode(SubSeq(bytes, 3, Len(bytes)))
         IN IF ~rest.ok THEN rest
            ELSE [ok |-> TRUE, val |-> <<3 + bytes[2]>> \o rest.val]

FileData(filename, content) == [filename |-> filename, content |-> content]

RECURSIVE JoinContents(_)
\* b''.join(f.content for f in file_contents)
JoinContents(file_contents) ==
    IF file_contents = <<>> THEN <<>>
    ELSE file_contents[1].content \o JoinContents(Tail(file_contents))

\* a ClipboardItem (timestamp and source are left out)
ClipboardItem(content_type, content, image_data, file_paths, file_contents, content_hash) ==
    [content_type  |-> content_type,
     content       |-> content,
     image_data    |-> image_data,
     file_paths    |-> file_paths,
     file_contents |-> file_contents,
     content_hash  |-> content_hash]

from_text(text) ==
    ClipboardItem("text", text, <<>>, <<>>, <<>>, MD5(utf8_encode(text)))

from_image(image_data) ==
    ClipboardItem("image", <<>>, image_data, <<>>, <<>>, MD5(image_data))

\* from_files on paths that hold no readable file (a remote path list): the
\* hash is taken over the sorted paths; a path is one byte here
from_files(file_paths) ==
    ClipboardItem("files", <<>>, <<>>, file_paths, <<>>,
                  MD5(SetToSeq(SeqToSet(file_paths))))

from_file_contents(file_contents) ==
    ClipboardItem("files", <<>>, <<>>, <<>>, file_contents,
                  MD5(JoinContents(file_contents)))

needs_chunked_transfer(file_size) == file_size >= cfg.chunk_threshold

---------------------------------------------------------------------------
(* Receiving engine: ChunkedTransferManager, incoming path *)

Resumable == {"pending", "transferring", "paused"}

\* what _save_state writes to transfer_state.json for the tasks `inc`
SavedState(inc) ==
    LET keep == {t \in DOMAIN inc : inc[t].state \in Resumable}
    IN [t \in keep |-> to_dict(inc[t])]

\* _save_state: the state file after the call, given the tasks in memory
save_state(inc) ==
    IF ~cfg.resume_enabled THEN state_file ELSE SavedState(inc)

\* _save_partial_data: the sidecar files after the call
save_partial_data(transfer_id, bufs) ==
    IF ~cfg.resume_enabled \/ transfer_id \notin DOMAIN bufs THEN partial_files
    ELSE Put(partial_files, transfer_id, bufs[transfer_id])

\* handle_transfer_init: existing task with the announced file_hash?
IsResume(data) ==
    /\ data.transfer_id \in DOMAIN incoming
    /\ incoming[data.transfer_id].file_hash = data.file_hash

\* the task handle_transfer_init creates for a new transfer
NewIncomingTask(data) ==
    [transfer_id        |-> data.transfer_id,
     filename           |-> data.filename,
     file_size          |-> data.file_size,
     file_hash          |-> data.file_hash,
     total_chunks       |-> data.total_chunks,
     chunk_size         |-> data.chunk_size,
     chunks             |-> [i \in 1..Len(data.chunks) |->
                               [chunk_index |-> data.chunks[i].chunk_index,
                                offset      |-> data.chunks[i].offset,
                                size        |-> data.chunks[i].size,
                                checksum    |-> data.chunks[i].checksum,
                                transferred |-> FALSE,
                                received    |-> FALSE]],
     state              |-> "transferring",
     transferred_chunks |-> 0]

\* needed_chunks of the reply of handle_transfer_init
NeededChunks(data) ==
    IF IsResume(data) THEN get_pending_chunks(incoming[data.transfer_id])
    ELSE [i \in 1..data.total_chunks |-> i - 1]

handle_transfer_init(data) ==
    LET tid    == data.transfer_id
        needed == NeededChunks(data)
        inc    == IF IsResume(data)
                  THEN [incoming EXCEPT ![tid].state = "transferring"]
                  ELSE Put(incoming, tid, NewIncomingTask(data))
        prev   == tid \in DOMAIN lastInit /\ lastInit[tid].file_hash = data.file_hash
    IN /\ incoming' = inc
       /\ incoming_data' = IF IsResume(data) THEN incoming_data
                           ELSE Put(incoming_data, tid, Zeros(data.file_size))
       /\ state_file' = save_state(inc)
       /\ partial_files' = partial_files
       /\ delivered' = <<>>
       /\ reply' = [type          |-> "chunked_transfer_ack",
                    transfer_id   |-> tid,
                    needed_chunks |-> needed]
       /\ lastInit' = Put(lastInit, tid, [file_hash |-> data.file_hash,
                                          resumed   |-> IsResume(data),
                                          needed    |-> SeqToSet(needed),
                                          written   |-> {}])
       /\ ev' = [op           |-> "init",
                 tid          |-> tid,
                 resumed      |-> IsResume(data),
                 needed       |-> SeqToSet(needed),
                 has_prev     |-> prev,
                 prev_needed  |-> IF prev THEN lastInit[tid].needed ELSE {},
                 prev_written |-> IF prev THEN lastInit[tid].written ELSE {},
                 completed    |-> <<>>]

\* is_complete of handle_chunk_data
IsComplete(task) == task.transferred_chunks >= task.total_chunks

\* mutant: the state is persisted after every chunk
PeriodicSave_EveryChunk(task) == TRUE

\* "Save partial data periodically (every 10 chunks)"
PeriodicSave(task) == task.transferred_chunks % 10 = 0

\* mutant: the whole-file check is skipped
HashMatches_Unchecked(file_data, task) == TRUE

\* the whole-file check of _complete_transfer
HashMatches(file_data, task) == calculate_file_hash(file_data) = task.file_hash

\* mutant: the per-chunk checksum is not verified
ChunkOutcome_Unverified(data) ==
    LET tid == data.transfer_id
    IN IF tid \notin DOMAIN incoming \/ tid \notin DOMAIN incoming_data
       THEN "unknown"
       ELSE IF data.chunk_index >= Len(incoming[tid].chunks) THEN "bad_index"
       ELSE IF ~decode_and_decompress(data.data, data.compressed).ok
            THEN "decode_error"
       ELSE "written"

\* mutant: a chunk of an unknown transfer is answered with a chunk_nack
ChunkOutcome_NackUnknown(data) ==
    LET tid == data.transfer_id
    IN IF tid \notin DOMAIN incoming \/ tid \notin DOMAIN incoming_data
       THEN "checksum_error"
       ELSE IF data.chunk_index >= Len(incoming[tid].chunks) THEN "bad_index"
       ELSE "written"

\* how far handle_chunk_data gets with the envelope `data`
ChunkOutcome(data) ==
    LET tid == data.transfer_id
    IN IF tid \notin DOMAIN incoming \/ tid \notin DOMAIN incoming_data
       THEN "unknown"
       ELSE IF data.chunk_index >= Len(incoming[tid].chunks) THEN "bad_index"
       ELSE LET dec == decode_and_decompress(data.data, data.compressed)
            IN IF ~dec.ok THEN "decode_error"
               ELSE IF MD5(dec.val) # incoming[tid].chunks[data.chunk_index + 1].checksum
                    THEN "checksum_error"
               ELSE "written"

\* the client's _on_transfer_complete: the item given to on_clipboard_received
ReceivedFileItem(filename, data) ==
    from_file_contents(<<FileData(filename, data)>>)

handle_chunk_data(data) ==
    LET tid     == data.transfer_id
        idx     == data.chunk_index
        outcome == ChunkOutcome(data)
    IN IF outcome # "written"
       THEN /\ UNCHANGED <<incoming, incoming_data, state_file, partial_files,
                           lastInit>>
            /\ delivered' = <<>>
            /\ reply' = IF outcome \in {"unknown", "bad_index"} THEN NoReply
                        ELSE [type        |-> "chunk_nack",
                              transfer_id |-> tid,
                              chunk_index |-> idx,
                              error       |-> outcome]
            /\ ev' = [op |-> "chunk", tid |-> tid, idx |-> idx, outcome |-> outcome,
                      checked |-> FALSE, buffer |-> <<>>, announced |-> 0,
                      completed |-> <<>>, on_error |-> FALSE]
       ELSE
         LET chunk_data == decode_and_decompress(data.data, data.compressed).val
             task0  == incoming[tid]
             buf1   == WriteAt(incoming_data[tid], task0.chunks[idx + 1].offset,
                               chunk_data)
             task1  == [task0 EXCEPT !.chunks[idx + 1].transferred = TRUE,
                                     !.transferred_chunks = @ + 1]
             inc1   == [incoming EXCEPT ![tid] = task1]
             bufs1  == [incoming_data EXCEPT ![tid] = buf1]
             part1  == IF PeriodicSave(task1) THEN save_partial_data(tid, bufs1)
                       ELSE partial_files
             sf1    == IF PeriodicSave(task1) THEN save_state(inc1) ELSE state_file
             done   == IsComplete(task1)
             match  == HashMatches(buf1, task1)
         IN /\ incoming' =
                 IF ~done THEN inc1
                 ELSE IF match THEN Pop(inc1, tid)
                 ELSE [inc1 EXCEPT ![tid].state = "failed"]
            /\ incoming_data' = IF done /\ match THEN Pop(bufs1, tid) ELSE bufs1
            /\ partial_files' = IF done /\ match THEN Pop(part1, tid) ELSE part1
            /\ state_file' = sf1
            /\ delivered' = IF done /\ match
                            THEN <<ReceivedFileItem(task1.filename, buf1)>>
                            ELSE <<>>
            /\ reply' =
                 IF ~done THEN [type |-> "chunk_ack", transfer_id |-> tid,
                                chunk_index |-> idx]
                 ELSE IF match THEN [type        |-> "transfer_complete",
                                     transfer_id |-> tid,
                                     filename    |-> task1.filename,
                                     file_size   |-> task1.file_size]
                 ELSE [type |-> "transfer_error", transfer_id |-> tid,
                       error |-> "hash_mismatch"]
            /\ lastInit' = IF tid \in DOMAIN lastInit
                           THEN [lastInit EXCEPT ![tid].written = @ \cup {idx}]
                           ELSE lastInit
            /\ ev' = [op |-> "chunk", tid |-> tid, idx |-> idx, outcome |-> outcome,
                      checked   |-> done,
                      buffer    |-> IF done THEN buf1 ELSE <<>>,
                      announced |-> IF done THEN task1.file_hash ELSE 0,
                      completed |-> IF done /\ match THEN <<buf1>> ELSE <<>>,
                      on_error  |-> done /\ ~match]

\* cancel_transfer of an incoming transfer: the task is marked Cancelled and
\* _cleanup_transfer drops it, its buffer and its sidecar
cancel_transfer(tid) ==
    /\ incoming' = Pop(incoming, tid)
    /\ incoming_data' = Pop(incoming_data, tid)
    /\ partial_files' = Pop(partial_files, tid)
    /\ state_file' = state_file
    /\ delivered' = <<>>
    /\ reply' = [type |-> "cancel",
                 found |-> tid \in DOMAIN outgoing \/ tid \in DOMAIN incoming]
    /\ lastInit' = Pop(lastInit, tid)
    /\ ev' = [op |-> "cancel", tid |-> tid, completed |-> <<>>]

\* the tasks _load_state restores: every saved task, coerced to Paused
LoadedTasks ==
    [t \in DOMAIN state_file |-> [from_dict(state_file[t]) EXCEPT !.state = "paused"]]

\* mutant: the sidecar is not read
LoadedBuffers_Zeros ==
    [t \in DOMAIN state_file |-> Zeros(state_file[t].file_size)]

\* the buffers _load_state binds: the sidecar, or file_size zero bytes
LoadedBuffers ==
    [t \in DOMAIN state_file |->
        IF t \in DOMAIN partial_files THEN partial_files[t]
        ELSE Zeros(state_file[t].file_size)]

\* the process is killed and started again: memory is lost, __init__ runs
\* _load_state
Restart ==
    /\ incoming' = IF cfg.resume_enabled THEN LoadedTasks ELSE EmptyDict
    /\ incoming_data' = IF cfg.resume_enabled THEN LoadedBuffers ELSE EmptyDict
    /\ UNCHANGED <<state_file, partial_files>>
    /\ delivered' = <<>>
    /\ reply' = NoReply
    /\ lastInit' = EmptyDict
    /\ ev' = [op |-> "restart", completed |-> <<>>]

---------------------------------------------------------------------------
(* The peer of the receiving engine *)

\* damage done to a chunk envelope in transit
Damage(msg, kind) ==
    IF kind = "flip"
    THEN [msg EXCEPT !.data = [i \in 1..Len(msg.data) |->
                                  IF i = Len(msg.data) THEN 1 - msg.data[i]
                                  ELSE msg.data[i]]]
    ELSE IF kind = "truncate"
    THEN [msg EXCEPT !.data = SubSeq(msg.data, 1, Len(msg.data) - 1)]
    ELSE msg

DamageKinds == {"ok", "flip", "truncate"}

\* the environment stops feeding a task that is MaxExtra deliveries past its
\* total
WithinBudget(tid) ==
    tid \in DOMAIN incoming =>
        incoming[tid].transferred_chunks < incoming[tid].total_chunks + MaxExtra

---------------------------------------------------------------------------
(* SpecEngine: the receiving engine fed by an arbitrary peer *)

\* the sample files the peer sends: all zero bytes, and a mixed one
Patterns == {0, 1}

EngFileSize == EngChunks * EngChunkSize - 1

\* what the sending peer holds for each sample file (its own prepare_send)
EngSenderTask ==
    [k \in Patterns |->
        NewOutgoingTask("t1", "f", SampleFile(EngFileSize, k), EngChunkSize)]

EngInitMsg == [k \in Patterns |-> get_transfer_init_message(EngSenderTask[k])]

EngChunkMsg ==
    [k \in Patterns, i \in 0..(EngChunks - 1), kind \in DamageKinds |->
        Damage(ChunkEnvelope(EngSenderTask[k], SampleFile(EngFileSize, k), i), kind)]

InitEngineState ==
    /\ incoming = EmptyDict
    /\ incoming_data = EmptyDict
    /\ state_file = EmptyDict
    /\ partial_files = EmptyDict
    /\ reply = NoReply
    /\ delivered = <<>>
    /\ lastInit = EmptyDict
    /\ ev = [op |-> "start", completed |-> <<>>]

\* ClipboardClient.__init__: not running, no websocket, no event loop; the
\* _connect coroutine and a stop() call have not begun
NewSession ==
    [running |-> FALSE, reconnect_delay |-> 1, websocket |-> "none",
     loop |-> "none", pc |-> "idle", stop_pc |-> "idle", grace_used |-> FALSE]

\* ClipboardMonitor.__init__, with an empty OS clipboard; neither the monitor
\* thread nor a setter has begun
NewMonitor ==
    [running |-> FALSE, last_hash |-> 0, paused |-> FALSE, lock |-> "free",
     clipboard |-> <<>>, seen |-> <<>>, arg |-> <<>>, pc |-> "idle",
     wpc |-> "idle"]

\* HistoryManager._init_db on a new database: an empty table
NewHistory == [rows |-> {}, seq |-> 0]

\* the specifications of the engine, the session's handlers and the hub leave
\* these threads where their constructors put them
InitShell ==
    /\ session = NewSession
    /\ monitor = NewMonitor
    /\ history = NewHistory

\* ClipboardClient.__init__ (and, for the hub's own transfers, the hub's
\* ChunkedTransferManager.__init__)
InitSpokeState ==
    /\ connected = FALSE
    /\ last_hash = 0
    /\ outgoing = EmptyDict
    /\ outgoing_data = EmptyDict
    /\ hist = [emitted |-> {}, fresh |-> 0, prepared |-> 0, epoch |-> 0,
               init_epoch |-> EmptyDict, inits |-> EmptyDict]

\* the websockets that may connect to the hub; each connects at most once (a
\* device that reconnects is a new websocket)
Sessions == {"s1", "s2", "s3"}

\* ClipboardServer.__init__
InitHubState ==
    /\ clients = {}
    /\ conn = [s \in Sessions |-> "new"]
    /\ routes = EmptyDict
    /\ hub_last_hash = 0
    /\ pending_chunks = EmptyDict

Links == {"a2h", "h2a", "b2h", "h2b"}

InitWire ==
    /\ sends = <<>>
    /\ net = [l \in Links |-> <<>>]

InitEngine ==
    /\ cfg = [chunk_size |-> EngChunkSize, chunk_threshold |-> EngChunkSize,
              resume_enabled |-> TRUE]
    /\ InitEngineState
    /\ InitShell
    /\ InitSpokeState
    /\ InitHubState
    /\ InitWire
    /\ sc = [name |-> "engine"]

EngInit(k) ==
    /\ handle_transfer_init(EngInitMsg[k])
    /\ UNCHANGED <<cfg, session, monitor, history, sc, spokeVars, hubVars, wireVars>>

EngChunk(k, i, kind) ==
    /\ WithinBudget("t1")
    /\ handle_chunk_data(EngChunkMsg[k, i, kind])
    /\ UNCHANGED <<cfg, session, monitor, history, sc, spokeVars, hubVars, wireVars>>

\* a chunk_data envelope whose index is past the plan
EngChunkPastEnd(k) ==
    /\ handle_chunk_data([EngChunkMsg[k, 0, "ok"] EXCEPT !.chunk_index = EngChunks])
    /\ UNCHANGED <<cfg, session, monitor, history, sc, spokeVars, hubVars, wireVars>>

EngCancel ==
    /\ cancel_transfer("t1")
    /\ UNCHANGED <<cfg, session, monitor, history, sc, spokeVars, hubVars, wireVars>>

EngRestart ==
    /\ Restart
    /\ UNCHANGED <<cfg, session, monitor, history, sc, spokeVars, hubVars, wireVars>>

NextEngine ==
    \/ \E k \in Patterns : EngInit(k)
    \/ \E k \in Patterns, i \in 0..(EngChunks - 1), kind \in DamageKinds :
          EngChunk(k, i, kind)
    \/ \E k \in Patterns : EngChunkPastEnd(k)
    \/ EngCancel
    \/ EngRestart

SpecEngine == InitEngine /\ [][NextEngine]_vars

---------------------------------------------------------------------------
(* SpecResume: scenario "resume across reconnect".  The peer sends the     *)
(* init, then the chunks the reply asks for, in order; the receiving       *)
(* process is killed once between two engine calls and started again; the  *)
(* peer sends the same init again and then the chunks that reply asks for. *)

ResSenderTask ==
    [k \in Patterns |->
        NewOutgoingTask("t1", "f", SampleFile(ResumeChunks, k), 1)]

ResInitMsg == [k \in Patterns |-> get_transfer_init_message(ResSenderTask[k])]

ResChunkMsg ==
    [k \in Patterns, i \in 0..(ResumeChunks - 1) |->
        ChunkEnvelope(ResSenderTask[k], SampleFile(ResumeChunks, k), i)]

InitResume ==
    /\ cfg = [chunk_size |-> 1, chunk_threshold |-> 1, resume_enabled |-> TRUE]
    /\ InitEngineState
    /\ InitShell
    /\ InitSpokeState
    /\ InitHubState
    /\ InitWire
    /\ \E k \in Patterns :
          sc = [name |-> "resume", phase |-> "init1", file |-> k,
                queue |-> <<>>, written |-> 0, killed |-> FALSE]

\* the peer's chunked_transfer_init reaches the engine (first time, or again
\* after the restart)
ResInit ==
    /\ sc.phase \in {"init1", "init2"}
    /\ handle_transfer_init(ResInitMsg[sc.file])
    /\ sc' = [sc EXCEPT !.phase = IF sc.phase = "init1" THEN "send1" ELSE "send2",
                        !.queue = reply'.needed_chunks]
    /\ UNCHANGED <<cfg, session, monitor, history, spokeVars, hubVars, wireVars>>

\* the peer sends the next chunk of needed_chunks (client._handle_chunked_ack)
ResSend ==
    /\ sc.phase \in {"send1", "send2"}
    /\ sc.queue # <<>>
    /\ handle_chunk_data(ResChunkMsg[sc.file, Head(sc.queue)])
    /\ sc' = [sc EXCEPT !.queue = Tail(sc.queue),
                        !.written = IF sc.killed THEN @ ELSE @ + 1]
    /\ UNCHANGED <<cfg, session, monitor, history, spokeVars, hubVars, wireVars>>

\* the receiving process is killed after chunks 0..written-1 were written,
\* and started again
ResKillRestart ==
    /\ sc.phase = "send1"
    /\ sc.written >= 1
    /\ sc.queue # <<>>
    /\ Restart
    /\ sc' = [sc EXCEPT !.phase = "init2", !.queue = <<>>, !.killed = TRUE]
    /\ UNCHANGED <<cfg, session, monitor, history, spokeVars, hubVars, wireVars>>

NextResume == ResInit \/ ResSend \/ ResKillRestart

SpecResume == InitResume /\ [][NextResume]_vars

---------------------------------------------------------------------------
(* SpecFail: a long transfer that ends in the whole-file mismatch.  The     *)
(* peer sends the chunks in order and may send the last one again (a retry  *)
(* whose acknowledgement was lost); every accepted envelope counts towards  *)
(* transferred_chunks, so the completion check can run on a buffer with     *)
(* chunks missing, after the periodic save has written the sidecar.         *)

InitFail ==
    /\ cfg = [chunk_size |-> 1, chunk_threshold |-> 1, resume_enabled |-> TRUE]
    /\ InitEngineState
    /\ InitShell
    /\ InitSpokeState
    /\ InitHubState
    /\ InitWire
    /\ \E k \in Patterns : sc = [name |-> "fail", file |-> k, next |-> 0]

\* the task is still being fed
FailFeeding ==
    /\ "t1" \in DOMAIN incoming
    /\ incoming["t1"].state = "transferring"
    /\ ev.op \in {"init", "chunk"}
    /\ ev.op = "chunk" => ~ev.checked

FailInit ==
    /\ ev.op = "start"
    /\ handle_transfer_init(ResInitMsg[sc.file])
    /\ UNCHANGED <<cfg, session, monitor, history, sc, spokeVars, hubVars, wireVars>>

\* the next chunk in order
FailSend ==
    /\ FailFeeding
    /\ sc.next < ResumeChunks
    /\ handle_chunk_data(ResChunkMsg[sc.file, sc.next])
    /\ sc' = [sc EXCEPT !.next = @ + 1]
    /\ UNCHANGED <<cfg, session, monitor, history, spokeVars, hubVars, wireVars>>

\* the chunk sent last, once more
FailRepeat ==
    /\ FailFeeding
    /\ sc.next >= 1
    /\ handle_chunk_data(ResChunkMsg[sc.file, sc.next - 1])
    /\ UNCHANGED <<cfg, session, monitor, history, sc, spokeVars, hubVars, wireVars>>

\* the user cancels the transfer
FailCancel ==
    /\ "t1" \in DOMAIN incoming
    /\ cancel_transfer("t1")
    /\ UNCHANGED <<cfg, session, monitor, history, sc, spokeVars, hubVars, wireVars>>

NextFail == FailInit \/ FailSend \/ FailRepeat \/ FailCancel

SpecFail == InitFail /\ [][NextFail]_vars

---------------------------------------------------------------------------
(* Clipboard envelopes: what _send_clipboard_item / broadcast_clipboard_item *)
(* put on the wire, and what the clipboard branch of _handle_message makes  *)
(* of an envelope.  The timestamp and file_count keys are left out.         *)

\* text longer than this many bytes goes through compress_and_encode (the
\* 512 of the source, scaled like MIN_COMPRESS_SIZE)
TextInlineLimit == 4

BaseEnvelope(item) ==
    [type         |-> "clipboard",
     content_type |-> item.content_type,
     content_hash |-> item.content_hash,
     compressed   |-> FALSE,
     content      |-> <<>>,
     image_data   |-> <<>>,
     files        |-> <<>>,
     file_paths   |-> <<>>]

\* mutant: the limit is applied to the number of characters
TextEnvelope_CharCount(item) ==
    LET content_bytes == utf8_encode(item.content)
        enc           == compress_and_encode(content_bytes)
    IN IF Len(item.content) > TextInlineLimit
       THEN [BaseEnvelope(item) EXCEPT !.content = enc[1], !.compressed = enc[2]]
       ELSE [BaseEnvelope(item) EXCEPT !.content = item.content]

TextEnvelope(item) ==
    LET content_bytes == utf8_encode(item.content)
        enc           == compress_and_encode(content_bytes)
    IN IF Len(content_bytes) > TextInlineLimit
       THEN [BaseEnvelope(item) EXCEPT !.content = enc[1], !.compressed = enc[2]]
       ELSE [BaseEnvelope(item) EXCEPT !.content = item.content]

ImageEnvelope(item) ==
    LET enc == compress_and_encode(item.image_data)
    IN [BaseEnvelope(item) EXCEPT !.image_data = enc[1], !.compressed = enc[2]]

FileEntry(file_data) ==
    LET enc == compress_and_encode(file_data.content)
    IN [filename   |-> file_data.filename,
        content    |-> enc[1],
        compressed |-> enc[2],
        size       |-> Len(file_data.content)]

FilesEnvelope(item, files) ==
    [BaseEnvelope(item) EXCEPT
        !.files = [i \in 1..Len(files) |-> FileEntry(files[i])]]

PathsEnvelope(item) ==
    [BaseEnvelope(item) EXCEPT !.file_paths = item.file_paths]

small_files(item) ==
    SelectSeq(item.file_contents,
              LAMBDA f : ~needs_chunked_transfer(Len(f.content)))

large_files(item) ==
    SelectSeq(item.file_contents,
              LAMBDA f : needs_chunked_transfer(Len(f.content)))

\* the clipboard envelopes one send of `item` emits (none for a files item
\* whose files all go chunked)
ClipboardEnvelopes(item) ==
    IF item.content_type = "text" THEN <<TextEnvelope(item)>>
    ELSE IF item.content_type = "image" THEN <<ImageEnvelope(item)>>
    ELSE IF item.file_contents = <<>> THEN <<PathsEnvelope(item)>>
    ELSE IF small_files(item) = <<>> THEN <<>>
    ELSE <<FilesEnvelope(item, small_files(item))>>

\* ContentType
ContentTypes == {"text", "image", "files"}

NoItem == from_text(<<>>)

\* the FileData list the files branch decodes, ok only if every entry decodes
DecodeFiles(files) ==
    LET dec == [i \in 1..Len(files) |->
                   decode_and_decompress(files[i].content, files[i].compressed)]
    IN [ok  |-> \A i \in 1..Len(files) : dec[i].ok,
        val |-> [i \in 1..Len(files) |->
                    FileData(files[i].filename, dec[i].val)]]

\* the item the clipboard branch builds; not ok where the code raises
ReceivedItem(data) ==
    IF data.content_type = "text"
    THEN IF data.compressed /\ data.content # <<>>
         THEN LET dec == decode_and_decompress(data.content, TRUE)
                  txt == utf8_decode(dec.val)
              IN IF dec.ok /\ txt.ok THEN [ok |-> TRUE, val |-> from_text(txt.val)]
                 ELSE [ok |-> FALSE, val |-> NoItem]
         ELSE [ok |-> TRUE, val |-> from_text(data.content)]
    ELSE IF data.content_type = "image"
    THEN LET dec == decode_and_decompress(data.image_data, data.compressed)
         IN IF dec.ok THEN [ok |-> TRUE, val |-> from_image(dec.val)]
            ELSE [ok |-> FALSE, val |-> NoItem]
    ELSE IF data.files # <<>>
    THEN LET dec == DecodeFiles(data.files)
         IN IF dec.ok THEN [ok |-> TRUE, val |-> from_file_contents(dec.val)]
            ELSE [ok |-> FALSE, val |-> NoItem]
    ELSE [ok |-> TRUE, val |-> from_files(data.file_paths)]

\* mutant: no inbound envelope is taken for an echo
IsEcho_Never(content_hash, last) == FALSE

\* "Avoid echo" of _handle_message
IsEcho(content_hash, last) == content_hash = last

\* how far the clipboard branch of _handle_message gets with `data` when the
\* last seen hash is `last`
ClipboardOutcome(data, last) ==
    IF data.content_type \notin ContentTypes
    THEN [kind |-> "bad_type", item |-> NoItem]
    ELSE IF IsEcho(data.content_hash, last)
    THEN [kind |-> "echo", item |-> NoItem]
    ELSE IF data.content_type = "image" /\ data.image_data = <<>>
    THEN [kind |-> "no_image", item |-> NoItem]
    ELSE IF ~ReceivedItem(data).ok
    THEN [kind |-> "decode_error", item |-> NoItem]
    ELSE [kind |-> "item", item |-> ReceivedItem(data).val]

\* _last_hash after the clipboard branch
LastHashAfter(data, last) ==
    IF ClipboardOutcome(data, last).kind \in {"bad_type", "echo"} THEN last
    ELSE data.content_hash

---------------------------------------------------------------------------
(* Spoke session: src/src/client.py *)

\* uuid.uuid4() of prepare_send: the n-th call gets the n-th fresh id
TidNames == <<"o1", "o2", "o3">>

ToHub(msgs) == [i \in 1..Len(msgs) |-> [to |-> "hub", msg |-> msgs[i]]]

RECURSIVE SendLargeFiles(_, _)
\* the loop over large_files: _send_large_file of each (prepare_send, then
\* the chunked_transfer_init is sent)
SendLargeFiles(files, st) ==
    IF files = <<>> THEN st
    ELSE LET tid  == TidNames[st.prepared + 1]
             prep == prepare_send(tid, files[1].filename, files[1].content)
             task == prep.task
         IN IF ~prep.ok THEN SendLargeFiles(Tail(files), st)
            ELSE SendLargeFiles(Tail(files),
                [outgoing      |-> Put(st.outgoing, tid, task),
                 outgoing_data |-> Put(st.outgoing_data, tid, files[1].content),
                 prepared      |-> st.prepared + 1,
                 msgs          |-> Append(st.msgs, get_transfer_init_message(task))])

\* mutant: no outbound check
AlreadySent_Never(content_hash, last) == FALSE

\* the outbound check of _send_clipboard_item
AlreadySent(content_hash, last) == content_hash = last

\* _send_clipboard_item(item)
send_clipboard_item(item) ==
    LET h    == item.content_hash
        go   == connected /\ ~AlreadySent(h, last_hash)
        envs == IF go THEN ClipboardEnvelopes(item) ELSE <<>>
        st0  == [outgoing |-> outgoing, outgoing_data |-> outgoing_data,
                 prepared |-> hist.prepared, msgs |-> <<>>]
        st   == IF go /\ item.content_type = "files"
                THEN SendLargeFiles(large_files(item), st0) ELSE st0
        new  == (DOMAIN st.outgoing) \ (DOMAIN outgoing)
    IN /\ last_hash' = IF go THEN h ELSE last_hash
       /\ outgoing' = st.outgoing
       /\ outgoing_data' = st.outgoing_data
       /\ sends' = ToHub(envs \o st.msgs)
       /\ hist' = [hist EXCEPT
             !.emitted    = IF envs # <<>> THEN @ \cup {h} ELSE @,
             !.fresh      = IF envs # <<>> THEN h ELSE IF h = @ THEN @ ELSE 0,
             !.prepared   = st.prepared,
             !.init_epoch = [t \in (DOMAIN @) \cup new |->
                               IF t \in new THEN hist.epoch ELSE @[t]],
             !.inits      = [t \in (DOMAIN @) \cup new |->
                               IF t \in new THEN 1 ELSE @[t]]]
       /\ ev' = [op |-> "send_item", hash |-> h, emitted |-> envs # <<>>,
                 started |-> new]
       /\ delivered' = <<>>
       /\ UNCHANGED connected

\* the clipboard branch of ClipboardClient._handle_message
client_handle_clipboard(data) ==
    LET out == ClipboardOutcome(data, last_hash)
    IN /\ last_hash' = LastHashAfter(data, last_hash)
       /\ delivered' = IF out.kind = "item" THEN <<out.item>> ELSE <<>>
       /\ sends' = <<>>
       /\ hist' = [hist EXCEPT
             !.fresh = IF data.content_hash = @ THEN @ ELSE 0]
       /\ ev' = [op          |-> "recv_clipboard",
                 hash        |-> data.content_hash,
                 outcome     |-> out.kind,
                 delivered   |-> out.kind = "item",
                 was_emitted |-> data.content_hash \in hist.emitted,
                 was_fresh   |-> hist.fresh # 0 /\ data.content_hash = hist.fresh]
       /\ UNCHANGED <<connected, outgoing, outgoing_data>>

\* get_chunk_data: not ok where it returns None
get_chunk_data(transfer_id, chunk_index) ==
    IF \/ transfer_id \notin DOMAIN outgoing
       \/ transfer_id \notin DOMAIN outgoing_data
       \/ outgoing_data[transfer_id] = <<>>
       \/ chunk_index >= Len(outgoing[transfer_id].chunks)
    THEN [ok |-> FALSE, val |-> NoReply]
    ELSE [ok  |-> TRUE,
          val |-> ChunkEnvelope(outgoing[transfer_id],
                                outgoing_data[transfer_id], chunk_index)]

\* the chunk envelopes for the indices `needed`, in order, skipping None
ChunksFor(transfer_id, needed) ==
    LET got == [i \in 1..Len(needed) |-> get_chunk_data(transfer_id, needed[i])]
        ok  == SelectSeq([i \in 1..Len(needed) |-> i], LAMBDA i : got[i].ok)
    IN [j \in 1..Len(ok) |-> got[ok[j]].val]

\* _handle_chunked_ack: every needed chunk is sent
handle_chunked_ack(data) ==
    /\ sends' = ToHub(ChunksFor(data.transfer_id, data.needed_chunks))
    /\ ev' = [op |-> "chunked_ack", tid |-> data.transfer_id,
              needed |-> data.needed_chunks]
    /\ delivered' = <<>>
    /\ UNCHANGED <<connected, last_hash, outgoing, outgoing_data, hist>>

\* mark_chunk_sent: the task after the call
mark_chunk_sent(task, chunk_index) ==
    IF chunk_index >= Len(task.chunks) THEN task
    ELSE LET t1 == [task EXCEPT !.chunks[chunk_index + 1].transferred = TRUE,
                                !.transferred_chunks = @ + 1]
         IN [t1 EXCEPT !.state = IF t1.transferred_chunks >= t1.total_chunks
                                 THEN "completed" ELSE "transferring"]

\* _handle_chunk_ack
handle_chunk_ack(data) ==
    /\ outgoing' = IF data.transfer_id \in DOMAIN outgoing
                   THEN [outgoing EXCEPT ![data.transfer_id] =
                            mark_chunk_sent(@, data.chunk_index)]
                   ELSE outgoing
    /\ sends' = <<>>
    /\ ev' = [op |-> "chunk_ack", tid |-> data.transfer_id,
              idx |-> data.chunk_index]
    /\ delivered' = <<>>
    /\ UNCHANGED <<connected, last_hash, outgoing_data, hist>>

\* mutant: a chunk_nack is logged and nothing is sent
handle_chunk_nack_Ignored(data) ==
    /\ sends' = <<>>
    /\ ev' = [op |-> "chunk_nack", tid |-> data.transfer_id,
              idx |-> data.chunk_index, resent |-> FALSE]
    /\ delivered' = <<>>
    /\ UNCHANGED <<connected, last_hash, outgoing, outgoing_data, hist>>

\* _handle_chunk_nack: that chunk is sent again
handle_chunk_nack(data) ==
    LET again == get_chunk_data(data.transfer_id, data.chunk_index)
    IN /\ sends' = IF again.ok THEN ToHub(<<again.val>>) ELSE <<>>
       /\ ev' = [op |-> "chunk_nack", tid |-> data.transfer_id,
                 idx |-> data.chunk_index, resent |-> again.ok]
       /\ delivered' = <<>>
       /\ UNCHANGED <<connected, last_hash, outgoing, outgoing_data, hist>>

\* the transfer_complete and pong branches: a log line at most
handle_notice(data) ==
    /\ sends' = <<>>
    /\ ev' = [op |-> "notice", type |-> data.type]
    /\ delivered' = <<>>
    /\ UNCHANGED <<connected, last_hash, outgoing, outgoing_data, hist>>

\* _connect: the websocket is open (no password is configured)
client_connect ==
    /\ connected' = TRUE
    /\ hist' = [hist EXCEPT !.epoch = @ + 1]
    /\ sends' = <<>>
    /\ ev' = [op |-> "connect"]
    /\ delivered' = <<>>
    /\ UNCHANGED <<last_hash, outgoing, outgoing_data>>

\* _connect: the receive loop ended (connection closed or error)
client_disconnect ==
    /\ connected' = FALSE
    /\ sends' = <<>>
    /\ ev' = [op |-> "disconnect"]
    /\ delivered' = <<>>
    /\ UNCHANGED <<last_hash, outgoing, outgoing_data, hist>>

---------------------------------------------------------------------------
(* SpecSpoke: one spoke session driven by its user (copies), its hub        *)
(* (inbound envelopes) and the network (connection loss).                   *)

\* what is copied: a text, an image, a small file, a large file, a small and
\* a large file together
ItemText == from_text(<<1>>)
ItemImage == from_image(<<1, 2>>)
ItemSmallFile == from_file_contents(<<FileData("s", <<1, 1>>)>>)
ItemLargeFile == from_file_contents(<<FileData("f", <<1, 0, 2>>)>>)
ItemMixed ==
    from_file_contents(<<FileData("s", <<2>>), FileData("f", <<1, 0, 2>>)>>)

SpokeItems == <<ItemText, ItemImage, ItemSmallFile, ItemLargeFile, ItemMixed>>

\* number of large files in item i
LargeCount ==
    [i \in 1..Len(SpokeItems) |->
        Cardinality({j \in 1..Len(SpokeItems[i].file_contents) :
                        Len(SpokeItems[i].file_contents[j].content) >= SpokeThreshold})]

\* the clipboard envelopes the hub relays to the spoke: what other spokes
\* emit for the items, and malformed ones
SpokeInbound ==
    <<TextEnvelope(ItemText),
      ImageEnvelope(ItemImage),
      FilesEnvelope(ItemSmallFile, ItemSmallFile.file_contents),
      PathsEnvelope(from_files(<<2>>)),
      [ImageEnvelope(ItemImage) EXCEPT !.image_data = <<>>],
      [ImageEnvelope(ItemImage) EXCEPT !.image_data = <<1>>],
      [TextEnvelope(ItemText) EXCEPT !.content_type = "bogus"],
      [TextEnvelope(ItemText) EXCEPT !.compressed = TRUE,
                                     !.content = <<0, 1, 1, 0>>]>>

InitSpoke ==
    /\ cfg = [chunk_size |-> EngChunkSize, chunk_threshold |-> SpokeThreshold,
              resume_enabled |-> TRUE]
    /\ InitEngineState
    /\ InitShell
    /\ InitSpokeState
    /\ InitHubState
    /\ InitWire
    /\ sc = [name |-> "spoke"]

spokeFrame == <<cfg, session, monitor, history, incoming, incoming_data, state_file, partial_files, reply,
                lastInit, sc, hubVars, net>>

SpokeConnect ==
    /\ ~connected
    /\ hist.epoch < MaxConnects
    /\ client_connect
    /\ UNCHANGED spokeFrame

SpokeDisconnect ==
    /\ connected
    /\ client_disconnect
    /\ UNCHANGED spokeFrame

\* the user copies item i (ClipboardClient.send_clipboard_item)
SpokeCopy(i) ==
    /\ hist.prepared + LargeCount[i] <= MaxTransfers
    /\ send_clipboard_item(SpokeItems[i])
    /\ UNCHANGED spokeFrame

SpokeRecvClipboard(i) ==
    /\ connected
    /\ client_handle_clipboard(SpokeInbound[i])
    /\ UNCHANGED spokeFrame

NextSpoke ==
    \/ SpokeConnect
    \/ SpokeDisconnect
    \/ \E i \in 1..Len(SpokeItems) : SpokeCopy(i)
    \/ \E i \in 1..Len(SpokeInbound) : SpokeRecvClipboard(i)

SpecSpoke == InitSpoke /\ [][NextSpoke]_vars

---------------------------------------------------------------------------
(* Hub: src/src/server.py.  A handler is one step; the order in which one   *)
(* broadcast reaches its recipients is not observable (each recipient has   *)
(* its own websocket), so the sends of a broadcast are listed in            *)
(* SessionOrder.                                                            *)

SessionOrder == <<"s1", "s2", "s3">>

\* the clients _broadcast(data, exclude) sends to
BroadcastTargets(cl, exclude) == cl \ {exclude}

\* the send attempts of _broadcast(data, exclude), made on the copy `cl`
BroadcastSends(data, exclude, cl) ==
    LET to == SelectSeq(SessionOrder,
                        LAMBDA s : s \in BroadcastTargets(cl, exclude))
    IN [i \in 1..Len(to) |-> [to |-> to[i], msg |-> data]]

\* a send on a websocket that is no longer open raises
SendFails(s) == conn[s] # "open"

\* _clients after the send attempts `out` of _broadcast: a client whose send
\* raised is discarded
AfterBroadcast(cl, out) ==
    cl \ {out[i].to : i \in {j \in 1..Len(out) : SendFails(out[j].to)}}

\* the route entry of a transfer: its origin ("hub" for None), or "none"
RouteOrigin(transfer_id) ==
    IF transfer_id \in DOMAIN routes THEN routes[transfer_id].origin ELSE "none"

\* what every hub handler records about the message it handled
HubEvent(websocket, data) ==
    [op   |-> "hub_recv",
     type |-> data.type,
     from |-> websocket,
     msg  |-> data]

\* the clipboard branch of ClipboardServer._handle_message
server_handle_clipboard(websocket, data) ==
    LET out == ClipboardOutcome(data, hub_last_hash)
        snd == IF out.kind = "item" THEN BroadcastSends(data, websocket, clients)
               ELSE <<>>
    IN /\ hub_last_hash' = LastHashAfter(data, hub_last_hash)
       /\ delivered' = IF out.kind = "item" THEN <<out.item>> ELSE <<>>
       /\ sends' = snd
       /\ clients' = AfterBroadcast(clients, snd)
       /\ ev' = HubEvent(websocket, data)
       /\ UNCHANGED <<conn, routes, pending_chunks, outgoing, outgoing_data, hist>>

\* the ping branch
server_handle_ping(websocket, data) ==
    /\ sends' = <<[to |-> websocket, msg |-> [type |-> "pong"]]>>
    /\ delivered' = <<>>
    /\ ev' = HubEvent(websocket, data)
    /\ UNCHANGED <<hubVars, outgoing, outgoing_data, hist>>

\* the chunked_transfer_init branch: the route is recorded, the init relayed
server_handle_init(websocket, data) ==
    LET snd == BroadcastSends(data, websocket, clients)
    IN /\ routes' = Put(routes, data.transfer_id,
                        [origin |-> websocket, filename |-> data.filename])
       /\ sends' = snd
       /\ clients' = AfterBroadcast(clients, snd)
       /\ delivered' = <<>>
       /\ ev' = HubEvent(websocket, data)
       /\ UNCHANGED <<conn, hub_last_hash, pending_chunks, outgoing,
                      outgoing_data, hist>>

\* the chunk_data branch
server_handle_chunk_data(websocket, data) ==
    LET snd == BroadcastSends(data, websocket, clients)
    IN /\ sends' = snd
       /\ clients' = AfterBroadcast(clients, snd)
       /\ delivered' = <<>>
       /\ ev' = HubEvent(websocket, data)
       /\ UNCHANGED <<conn, routes, hub_last_hash, pending_chunks, outgoing,
                      outgoing_data, hist>>

\* the transfer_complete branch: the route is dropped, the message relayed
server_handle_transfer_complete(websocket, data) ==
    LET snd == BroadcastSends(data, websocket, clients)
    IN /\ routes' = Pop(routes, data.transfer_id)
       /\ sends' = snd
       /\ clients' = AfterBroadcast(clients, snd)
       /\ delivered' = <<>>
       /\ ev' = HubEvent(websocket, data)
       /\ UNCHANGED <<conn, hub_last_hash, pending_chunks, outgoing,
                      outgoing_data, hist>>

AckTypes == {"chunked_transfer_ack", "chunk_ack", "chunk_nack"}

\* mutant: an acknowledgement is relayed the way chunk_data is
RelayTargets_Broadcast(origin, websocket, cl) ==
    SelectSeq(SessionOrder, LAMBDA s : s \in cl \ {websocket})

\* the websockets an acknowledgement of a spoke-originated transfer is sent
\* to: info[0], unless it is the sender itself
RelayTargets(origin, websocket, cl) ==
    IF origin # websocket THEN <<origin>> ELSE <<>>

\* _handle_server_chunked_ack and _send_chunk_batch: the requested chunks go
\* to the acknowledging websocket; the first send that raises ends the job
server_chunked_ack(websocket, data) ==
    LET tid    == data.transfer_id
        chunks == ChunksFor(tid, data.needed_chunks)
        all    == [i \in 1..Len(chunks) |-> [to |-> websocket, msg |-> chunks[i]]]
        failed == SendFails(websocket) /\ chunks # <<>>
    IN /\ sends' = IF failed THEN SubSeq(all, 1, 1) ELSE all
       /\ pending_chunks' =
             IF data.needed_chunks = <<>> THEN pending_chunks
             ELSE IF failed THEN Pop(pending_chunks, tid)
             ELSE Put(pending_chunks, tid,
                      [chunks        |-> data.needed_chunks,
                       current_index |-> Len(data.needed_chunks),
                       websocket     |-> websocket,
                       filename      |-> routes[tid].filename])
       /\ UNCHANGED <<clients, conn, routes, hub_last_hash, outgoing,
                      outgoing_data, hist>>

\* number of chunks of `task` flagged received
ReceivedCount(task) ==
    Cardinality({i \in 1..Len(task.chunks) : task.chunks[i].received})

\* the chunk_ack branch for a hub-originated transfer: the chunk is flagged
\* received; when all are, cleanup_transfer runs and the route is dropped
server_chunk_ack(websocket, data) ==
    LET tid  == data.transfer_id
        idx  == data.chunk_index
        task == IF idx < Len(outgoing[tid].chunks)
                THEN [outgoing[tid] EXCEPT !.chunks[idx + 1].received = TRUE]
                ELSE outgoing[tid]
        done == ReceivedCount(task) >= task.total_chunks
    IN /\ sends' = <<>>
       /\ IF tid \notin DOMAIN outgoing
          THEN UNCHANGED <<outgoing, outgoing_data, routes>>
          ELSE /\ outgoing' = IF done THEN Pop(outgoing, tid)
                              ELSE [outgoing EXCEPT ![tid] = task]
               /\ outgoing_data' = IF done THEN Pop(outgoing_data, tid)
                                   ELSE outgoing_data
               /\ routes' = IF done THEN Pop(routes, tid) ELSE routes
       /\ UNCHANGED <<clients, conn, hub_last_hash, pending_chunks, hist>>

\* the chunk_nack branch for a hub-originated transfer: that chunk is sent
\* again to the websocket that rejected it
server_chunk_nack(websocket, data) ==
    LET again == get_chunk_data(data.transfer_id, data.chunk_index)
    IN /\ sends' = IF again.ok THEN <<[to |-> websocket, msg |-> again.val]>>
                   ELSE <<>>
       /\ UNCHANGED <<hubVars, outgoing, outgoing_data, hist>>

\* the chunked_transfer_ack, chunk_ack and chunk_nack branches
server_handle_ack(websocket, data) ==
    LET origin == RouteOrigin(data.transfer_id)
        to     == RelayTargets(origin, websocket, clients)
    IN /\ delivered' = <<>>
       /\ ev' = HubEvent(websocket, data)
       /\ IF origin = "none"
          THEN /\ sends' = <<>>
               /\ UNCHANGED <<hubVars, outgoing, outgoing_data, hist>>
          ELSE IF origin = "hub"
          THEN IF data.type = "chunked_transfer_ack"
               THEN server_chunked_ack(websocket, data)
               ELSE IF data.type = "chunk_ack"
               THEN server_chunk_ack(websocket, data)
               ELSE server_chunk_nack(websocket, data)
          ELSE /\ sends' = [i \in 1..Len(to) |-> [to |-> to[i], msg |-> data]]
               /\ UNCHANGED <<hubVars, outgoing, outgoing_data, hist>>

RECURSIVE BroadcastEach(_, _)
\* _broadcast(msg) of each of `msgs` in turn: the sends, and _clients after
BroadcastEach(msgs, st) ==
    IF msgs = <<>> THEN st
    ELSE LET snd == BroadcastSends(msgs[1], "none", st.clients)
         IN BroadcastEach(Tail(msgs),
                          [sends   |-> st.sends \o snd,
                           clients |-> AfterBroadcast(st.clients, snd)])

\* broadcast_clipboard_item(item): the hub's own copy
broadcast_clipboard_item(item) ==
    LET h    == item.content_hash
        go   == ~AlreadySent(h, hub_last_hash)
        envs == IF go THEN ClipboardEnvelopes(item) ELSE <<>>
        st0  == [outgoing |-> outgoing, outgoing_data |-> outgoing_data,
                 prepared |-> hist.prepared, msgs |-> <<>>]
        st   == IF go /\ item.content_type = "files"
                THEN SendLargeFiles(large_files(item), st0) ELSE st0
        new  == (DOMAIN st.outgoing) \ (DOMAIN outgoing)
        out  == BroadcastEach(envs \o st.msgs,
                              [sends |-> <<>>, clients |-> clients])
    IN /\ hub_last_hash' = IF go THEN h ELSE hub_last_hash
       /\ outgoing' = st.outgoing
       /\ outgoing_data' = st.outgoing_data
       /\ routes' = [t \in (DOMAIN routes) \cup new |->
                       IF t \in new
                       THEN [origin |-> "hub", filename |-> st.outgoing[t].filename]
                       ELSE routes[t]]
       /\ hist' = [hist EXCEPT
             !.prepared   = st.prepared,
             !.init_epoch = [t \in (DOMAIN @) \cup new |-> 0],
             !.inits      = [t \in (DOMAIN @) \cup new |->
                               IF t \in new THEN 1 ELSE @[t]]]
       /\ sends' = out.sends
       /\ clients' = out.clients
       /\ delivered' = <<>>
       /\ ev' = [op |-> "hub_copy", hash |-> h, emitted |-> envs # <<>>,
                 started |-> new]
       /\ UNCHANGED <<conn, pending_chunks>>

\* _handler: a websocket is accepted and registered (no password is set)
server_register(websocket) ==
    /\ conn' = [conn EXCEPT ![websocket] = "open"]
    /\ clients' = clients \cup {websocket}
    /\ sends' = <<>>
    /\ delivered' = <<>>
    /\ ev' = [op |-> "hub_register", from |-> websocket]
    /\ UNCHANGED <<routes, hub_last_hash, pending_chunks, outgoing,
                   outgoing_data, hist>>

\* the connection of a registered websocket breaks; its handler has not
\* noticed yet
connection_lost(websocket) ==
    /\ conn' = [conn EXCEPT ![websocket] = "broken"]
    /\ sends' = <<>>
    /\ delivered' = <<>>
    /\ ev' = [op |-> "hub_lost", from |-> websocket]
    /\ UNCHANGED <<clients, routes, hub_last_hash, pending_chunks, outgoing,
                   outgoing_data, hist>>

\* _handler, finally: the websocket is discarded
server_unregister(websocket) ==
    /\ conn' = [conn EXCEPT ![websocket] = "closed"]
    /\ clients' = clients \ {websocket}
    /\ sends' = <<>>
    /\ delivered' = <<>>
    /\ ev' = [op |-> "hub_unregister", from |-> websocket]
    /\ UNCHANGED <<routes, hub_last_hash, pending_chunks, outgoing,
                   outgoing_data, hist>>

---------------------------------------------------------------------------
(* Message dispatch of the spoke and of the hub *)

\* ClipboardClient._handle_message, for the messages a sending spoke gets
client_handle_message(data) ==
    IF data.type = "clipboard" THEN client_handle_clipboard(data)
    ELSE IF data.type = "chunked_transfer_ack" THEN handle_chunked_ack(data)
    ELSE IF data.type = "chunk_ack" THEN handle_chunk_ack(data)
    ELSE IF data.type = "chunk_nack" THEN handle_chunk_nack(data)
    ELSE handle_notice(data)

\* ClipboardServer._handle_message; a type without a branch is ignored
server_handle_message(websocket, data) ==
    IF data.type = "clipboard" THEN server_handle_clipboard(websocket, data)
    ELSE IF data.type = "ping" THEN server_handle_ping(websocket, data)
    ELSE IF data.type = "chunked_transfer_init"
    THEN server_handle_init(websocket, data)
    ELSE IF data.type \in AckTypes THEN server_handle_ack(websocket, data)
    ELSE IF data.type = "chunk_data" THEN server_handle_chunk_data(websocket, data)
    ELSE IF data.type = "transfer_complete"
    THEN server_handle_transfer_complete(websocket, data)
    ELSE /\ sends' = <<>>
         /\ delivered' = <<>>
         /\ ev' = HubEvent(websocket, data)
         /\ UNCHANGED <<hubVars, outgoing, outgoing_data, hist>>

---------------------------------------------------------------------------
(* SpecHub: the hub with up to three spoke sessions that connect, send any  *)
(* message of the protocol, and go away; the hub's user copies items too.   *)

InitHub ==
    /\ cfg = [chunk_size |-> EngChunkSize, chunk_threshold |-> SpokeThreshold,
              resume_enabled |-> TRUE]
    /\ InitEngineState
    /\ InitShell
    /\ InitSpokeState
    /\ InitHubState
    /\ InitWire
    /\ sc = [name |-> "hub"]

hubFrame == <<cfg, session, monitor, history, incoming, incoming_data, state_file, partial_files, reply,
              lastInit, sc, connected, last_hash, net>>

\* transfer ids on the wire: one chosen by a spoke, one by the hub
HubTids == {"t1", TidNames[1]}

\* the clipboard envelopes spokes send: a text, an image, an image envelope
\* without image data, an envelope of unknown content type
HubInbound ==
    <<SpokeInbound[1], SpokeInbound[2], SpokeInbound[5], SpokeInbound[7]>>

\* what the hub's user copies: a text, a large file
HubItems == <<ItemText, ItemLargeFile>>

\* acknowledgements spokes send: for the spoke-originated transfer, and a
\* chunk_nack for the hub-originated one
HubAcks ==
    <<[type |-> "chunked_transfer_ack", transfer_id |-> "t1",
       needed_chunks |-> <<0, 1>>],
      [type |-> "chunk_ack", transfer_id |-> "t1", chunk_index |-> 1],
      [type |-> "chunk_nack", transfer_id |-> "t1", chunk_index |-> 1,
       error |-> "checksum_error"],
      [type |-> "chunk_nack", transfer_id |-> TidNames[1], chunk_index |-> 1,
       error |-> "checksum_error"]>>

\* acknowledgements of the hub-originated transfer
HubLocalAcks ==
    <<[type |-> "chunked_transfer_ack", transfer_id |-> TidNames[1],
       needed_chunks |-> <<0, 1>>],
      [type |-> "chunk_ack", transfer_id |-> TidNames[1], chunk_index |-> 0],
      [type |-> "chunk_ack", transfer_id |-> TidNames[1], chunk_index |-> 1],
      [type |-> "chunk_nack", transfer_id |-> TidNames[1], chunk_index |-> 1,
       error |-> "checksum_error"]>>

\* websockets are accepted in the order of their names
HubRegister(s) ==
    /\ conn[s] = "new"
    /\ \A i \in 1..Len(SessionOrder) :
          SessionOrder[i] = s => \A j \in 1..(i - 1) : conn[SessionOrder[j]] # "new"
    /\ server_register(s)
    /\ UNCHANGED hubFrame

\* one connection breaks at a time
HubConnectionLost(s) ==
    /\ conn[s] = "open"
    /\ \A t \in Sessions : conn[t] # "broken"
    /\ connection_lost(s)
    /\ UNCHANGED hubFrame

HubUnregister(s) ==
    /\ conn[s] = "broken"
    /\ server_unregister(s)
    /\ UNCHANGED hubFrame

HubRecvClipboard(s, i) ==
    /\ conn[s] = "open"
    /\ server_handle_clipboard(s, HubInbound[i])
    /\ UNCHANGED hubFrame

HubRecvPing(s) ==
    /\ conn[s] = "open"
    /\ server_handle_ping(s, [type |-> "ping"])
    /\ UNCHANGED hubFrame

HubRecvInit(s) ==
    /\ conn[s] = "open"
    /\ server_handle_init(s, EngInitMsg[1])
    /\ UNCHANGED hubFrame

HubRecvAck(s, i) ==
    /\ conn[s] = "open"
    /\ server_handle_ack(s, HubAcks[i])
    /\ UNCHANGED hubFrame

HubRecvLocalAck(s, i) ==
    /\ conn[s] = "open"
    /\ server_handle_ack(s, HubLocalAcks[i])
    /\ UNCHANGED hubFrame

HubRecvChunkData(s) ==
    /\ conn[s] = "open"
    /\ server_handle_chunk_data(s, EngChunkMsg[1, 0, "ok"])
    /\ UNCHANGED hubFrame

HubRecvTransferComplete(s, tid) ==
    /\ conn[s] = "open"
    /\ server_handle_transfer_complete(s,
          [type |-> "transfer_complete", transfer_id |-> tid,
           filename |-> "f", file_size |-> EngFileSize])
    /\ UNCHANGED hubFrame

\* a receiving spoke reports that its whole-file check failed
HubRecvTransferError(s) ==
    /\ conn[s] = "open"
    /\ server_handle_message(s,
          [type |-> "transfer_error", transfer_id |-> "t1",
           error |-> "hash_mismatch"])
    /\ UNCHANGED hubFrame

\* the hub's user copies item i (ClipboardServer.send_clipboard_item)
HubCopy(i) ==
    /\ HubItems[i] = ItemLargeFile => TidNames[1] \notin DOMAIN hist.init_epoch
    /\ broadcast_clipboard_item(HubItems[i])
    /\ UNCHANGED hubFrame

NextHub ==
    \/ \E s \in Sessions : HubRegister(s)
    \/ \E s \in Sessions : HubConnectionLost(s)
    \/ \E s \in Sessions : HubUnregister(s)
    \/ \E s \in Sessions, i \in 1..Len(HubInbound) : HubRecvClipboard(s, i)
    \/ \E s \in Sessions : HubRecvPing(s)
    \/ \E s \in Sessions : HubRecvInit(s)
    \/ \E s \in Sessions, i \in 1..Len(HubAcks) : HubRecvAck(s, i)
    \/ \E s \in Sessions : HubRecvChunkData(s)
    \/ \E s \in Sessions, tid \in HubTids : HubRecvTransferComplete(s, tid)
    \/ \E s \in Sessions : HubRecvTransferError(s)
    \/ \E i \in 1..Len(HubItems) : HubCopy(i)

SpecHub == InitHub /\ [][NextHub]_vars

\* SpecHubSend: the hub sends a large file of its own to its spokes, which
\* acknowledge it and report its completion
InitHubSend ==
    /\ cfg = [chunk_size |-> EngChunkSize, chunk_threshold |-> SpokeThreshold,
              resume_enabled |-> TRUE]
    /\ InitEngineState
    /\ InitShell
    /\ InitSpokeState
    /\ InitHubState
    /\ InitWire
    /\ sc = [name |-> "hubsend", completed |-> {}]

\* spoke s reports that it has completed the hub-originated transfer
HubRecvLocalComplete(s) ==
    /\ conn[s] = "open"
    /\ s \notin sc.completed
    /\ server_handle_transfer_complete(s,
          [type |-> "transfer_complete", transfer_id |-> TidNames[1],
           filename |-> "f", file_size |-> 3])
    /\ sc' = [sc EXCEPT !.completed = @ \cup {s}]
    /\ UNCHANGED <<cfg, session, monitor, history, incoming, incoming_data, state_file, partial_files,
                   reply, lastInit, connected, last_hash, net>>

NextHubSend ==
    \/ \E s \in Sessions : HubRegister(s)
    \/ \E s \in Sessions : HubConnectionLost(s)
    \/ \E s \in Sessions : HubUnregister(s)
    \/ \E i \in 1..Len(HubItems) : HubCopy(i)
    \/ \E s \in Sessions, i \in 1..Len(HubLocalAcks) : HubRecvLocalAck(s, i)
    \/ \E s \in Sessions : HubRecvLocalComplete(s)

SpecHubSend == InitHubSend /\ [][NextHubSend]_vars

---------------------------------------------------------------------------
(* SpecRelay: an origin spoke A (session s1) sends one large file through   *)
(* the hub to a receiving spoke B (session s2).  Messages travel in order   *)
(* on each websocket; each node handles one message per step.  A chunk_data *)
(* envelope on its way to B may be damaged, MaxCorrupt times at most.       *)

\* the messages among the send attempts `out` that go to websocket s
MsgsTo(out, s) ==
    LET mine == SelectSeq(out, LAMBDA o : o.to = s)
    IN [i \in 1..Len(mine) |-> mine[i].msg]

RelayFile == SampleFile(RelayChunks * EngChunkSize - 1, 1)

RelayItem == from_file_contents(<<FileData("f", RelayFile)>>)

InitRelay ==
    /\ cfg = [chunk_size |-> EngChunkSize, chunk_threshold |-> SpokeThreshold,
              resume_enabled |-> TRUE]
    /\ InitEngineState
    /\ InitShell
    /\ connected = TRUE
    /\ last_hash = 0
    /\ outgoing = EmptyDict
    /\ outgoing_data = EmptyDict
    /\ hist = [emitted |-> {}, fresh |-> 0, prepared |-> 0, epoch |-> 1,
               init_epoch |-> EmptyDict, inits |-> EmptyDict]
    /\ clients = {"s1", "s2"}
    /\ conn = [s \in Sessions |-> IF s \in {"s1", "s2"} THEN "open" ELSE "new"]
    /\ routes = EmptyDict
    /\ hub_last_hash = 0
    /\ pending_chunks = EmptyDict
    /\ InitWire
    /\ sc = [name |-> "relay", file |-> RelayFile, damaged |-> 0, acked |-> {},
             nacked |-> <<>>, resent |-> <<>>, complete_sent |-> FALSE,
             done |-> FALSE]

\* the user of A copies the file
RelayCopy ==
    /\ hist.prepared = 0
    /\ send_clipboard_item(RelayItem)
    /\ net' = [net EXCEPT !.a2h = @ \o MsgsTo(sends', "hub")]
    /\ UNCHANGED <<cfg, session, monitor, history, incoming, incoming_data, state_file, partial_files,
                   reply, lastInit, sc, hubVars>>

\* A handles the next message from the hub
RelayOriginStep ==
    /\ net.h2a # <<>>
    /\ client_handle_message(Head(net.h2a))
    /\ net' = [net EXCEPT !.h2a = Tail(@), !.a2h = @ \o MsgsTo(sends', "hub")]
    /\ sc' = [sc EXCEPT !.resent = IF ev'.op = "chunk_nack" /\ ev'.resent
                                   THEN Append(@, ev'.idx) ELSE @]
    /\ UNCHANGED <<cfg, session, monitor, history, incoming, incoming_data, state_file, partial_files,
                   reply, lastInit, hubVars>>

\* the hub handles the next message of session s1 (A) or s2 (B)
RelayHubStep(s) ==
    LET link == IF s = "s1" THEN "a2h" ELSE "b2h"
    IN /\ net[link] # <<>>
       /\ server_handle_message(s, Head(net[link]))
       /\ net' = [l \in Links |->
                    (IF l = link THEN Tail(net[l]) ELSE net[l])
                       \o (IF l = "h2a" THEN MsgsTo(sends', "s1")
                           ELSE IF l = "h2b" THEN MsgsTo(sends', "s2")
                           ELSE <<>>)]
       /\ UNCHANGED <<cfg, session, monitor, history, incoming, incoming_data, state_file, partial_files,
                      reply, lastInit, sc, connected, last_hash>>

\* B handles the next message from the hub (_handle_chunked_init,
\* _handle_chunk_data) and sends the engine's response
RelayReceiverStep ==
    /\ net.h2b # <<>>
    /\ Head(net.h2b).type \in {"chunked_transfer_init", "chunk_data"}
    /\ IF Head(net.h2b).type = "chunked_transfer_init"
       THEN handle_transfer_init(Head(net.h2b))
       ELSE handle_chunk_data(Head(net.h2b))
    /\ sends' = IF reply'.type = "none" THEN <<>> ELSE ToHub(<<reply'>>)
    /\ net' = [net EXCEPT !.h2b = Tail(@), !.b2h = @ \o MsgsTo(sends', "hub")]
    /\ sc' = [sc EXCEPT
          !.acked  = IF reply'.type = "chunk_ack" THEN @ \cup {reply'.chunk_index}
                     ELSE @,
          !.nacked = IF reply'.type = "chunk_nack"
                     THEN Append(@, reply'.chunk_index) ELSE @,
          !.complete_sent = @ \/ reply'.type = "transfer_complete",
          !.done   = @ \/ (delivered' # <<>> /\
                           delivered'[1].file_contents[1].content = sc.file)]
    /\ UNCHANGED <<cfg, session, monitor, history, spokeVars, hubVars>>

\* the chunk_data envelope that B would handle next is damaged on the way
RelayDamage(kind) ==
    /\ sc.damaged < MaxCorrupt
    /\ net.h2b # <<>>
    /\ Head(net.h2b).type = "chunk_data"
    /\ net' = [net EXCEPT !.h2b = <<Damage(Head(@), kind)>> \o Tail(@)]
    /\ sc' = [sc EXCEPT !.damaged = @ + 1]
    /\ ev' = [op |-> "damage", kind |-> kind]
    /\ sends' = <<>>
    /\ delivered' = <<>>
    /\ UNCHANGED <<cfg, session, monitor, history, incoming, incoming_data, state_file, partial_files,
                   reply, lastInit, spokeVars, hubVars>>

NextRelay ==
    \/ RelayCopy
    \/ RelayOriginStep
    \/ \E s \in {"s1", "s2"} : RelayHubStep(s)
    \/ RelayReceiverStep
    \/ \E kind \in {"flip", "truncate"} : RelayDamage(kind)

SpecRelay == InitRelay /\ [][NextRelay]_vars

\* a message that reached a node is eventually handled: while some receive
\* loop has a message waiting, one of the waiting messages gets handled
RelayDeliver ==
    \/ RelayOriginStep
    \/ RelayHubStep("s1")
    \/ RelayHubStep("s2")
    \/ RelayReceiverStep

SpecRelayFair == SpecRelay /\ WF_vars(RelayDeliver)

---------------------------------------------------------------------------
(* SpecHubRelay: the hub's user copies one large file while a single spoke  *)
(* B (session s2) is registered; B runs the receiving engine and answers.   *)

\* the file the hub's user copies: one chunk more than a batch of the hub's
\* batch sender
HubRelayFile == SampleFile((RelayChunks + 1) * EngChunkSize - 1, 2)

HubRelayItem == from_file_contents(<<FileData("g", HubRelayFile)>>)

InitHubRelay ==
    /\ cfg = [chunk_size |-> EngChunkSize, chunk_threshold |-> SpokeThreshold,
              resume_enabled |-> TRUE]
    /\ InitEngineState
    /\ InitShell
    /\ InitSpokeState
    /\ clients = {"s2"}
    /\ conn = [s \in Sessions |-> IF s = "s2" THEN "open" ELSE "new"]
    /\ routes = EmptyDict
    /\ hub_last_hash = 0
    /\ pending_chunks = EmptyDict
    /\ InitWire
    /\ sc = [name |-> "hubrelay", file |-> HubRelayFile, damaged |-> 0,
             acked |-> {}, nacked |-> <<>>, resent |-> <<>>,
             complete_sent |-> FALSE, done |-> FALSE]

\* the hub's user copies the file (ClipboardServer.send_clipboard_item)
HubRelayCopy ==
    /\ hist.prepared = 0
    /\ broadcast_clipboard_item(HubRelayItem)
    /\ net' = [net EXCEPT !.h2b = @ \o MsgsTo(sends', "s2")]
    /\ UNCHANGED <<cfg, session, monitor, history, incoming, incoming_data, state_file, partial_files,
                   reply, lastInit, sc, connected, last_hash>>

NextHubRelay ==
    \/ HubRelayCopy
    \/ RelayHubStep("s2")
    \/ RelayReceiverStep
    \/ \E kind \in {"flip", "truncate"} : RelayDamage(kind)

SpecHubRelay == InitHubRelay /\ [][NextHubRelay]_vars

\* a message that reached the hub or the spoke is eventually handled
HubRelayDeliver == RelayHubStep("s2") \/ RelayReceiverStep

SpecHubRelayFair == SpecHubRelay /\ WF_vars(HubRelayDeliver)

---------------------------------------------------------------------------
(* The hub's batch sender, one step per stretch of code between two points  *)
(* where the coroutine gives up the event loop (run_in_executor, the sleeps  *)
(* of _send_chunk_batch).  Each session's handler task runs its own call of  *)
(* _send_chunk_batch; the entry of _pending_chunks is shared per transfer.   *)

\* batch_size of _send_chunk_batch
BatchSize == 3

\* a handler task that is not inside _send_chunk_batch
NoBatch(pc) ==
    [pc |-> pc, tid |-> "", chunks |-> <<>>, idx |-> 0, end |-> 0,
     websocket |-> "none"]

\* the head of _send_chunk_batch(tid): the entry is read from `pend`; the
\* entry is popped when it is exhausted; otherwise the locals of one batch
send_chunk_batch(tid, pend) ==
    IF tid \notin DOMAIN pend
    THEN [pending |-> pend, task |-> NoBatch("done")]
    ELSE LET p == pend[tid]
             total == Len(p.chunks)
         IN IF p.current_index >= total
            THEN [pending |-> Pop(pend, tid), task |-> NoBatch("done")]
            ELSE [pending |-> pend,
                  task |-> [pc |-> "send", tid |-> tid, chunks |-> p.chunks,
                            idx |-> p.current_index,
                            end |-> Min(p.current_index + BatchSize, total),
                            websocket |-> p.websocket]]

\* _handle_server_chunked_ack up to the first wait inside _send_chunk_batch
handle_server_chunked_ack(websocket, data) ==
    LET tid == data.transfer_id
        st  == send_chunk_batch(tid,
                  Put(pending_chunks, tid,
                      [chunks        |-> data.needed_chunks,
                       current_index |-> 0,
                       websocket     |-> websocket,
                       filename      |-> routes[tid].filename]))
    IN /\ pending_chunks' = IF data.needed_chunks = <<>> THEN pending_chunks
                            ELSE st.pending
       /\ sc' = [sc EXCEPT
             !.task[websocket] = IF data.needed_chunks = <<>>
                                 THEN NoBatch("done") ELSE st.task,
             !.needed[websocket] = data.needed_chunks]
       /\ sends' = <<>>
       /\ delivered' = <<>>
       /\ ev' = HubEvent(websocket, data)
       /\ UNCHANGED <<clients, conn, routes, hub_last_hash, outgoing,
                      outgoing_data, hist>>

\* one round of the loop of _send_chunk_batch run by the handler task of
\* session s: the chunk is fetched and sent on the batch's websocket
batch_send(s) ==
    LET t     == sc.task[s]
        chunk == get_chunk_data(t.tid, t.chunks[t.idx + 1])
        fails == chunk.ok /\ SendFails(t.websocket)
        next  == [t EXCEPT !.idx = @ + 1,
                           !.pc = IF t.idx + 1 = t.end THEN "update" ELSE "send"]
    IN /\ sends' = IF chunk.ok THEN <<[to |-> t.websocket, msg |-> chunk.val]>>
                   ELSE <<>>
       /\ pending_chunks' = IF fails THEN Pop(pending_chunks, t.tid)
                            ELSE pending_chunks
       /\ sc' = [sc EXCEPT
             !.task[s] = IF fails THEN NoBatch("done") ELSE next,
             !.got[t.websocket] =
                 IF chunk.ok /\ ~fails THEN @ \cup {t.chunks[t.idx + 1]} ELSE @]
       /\ delivered' = <<>>
       /\ ev' = [op |-> "batch_send", task |-> s, to |-> t.websocket]
       /\ UNCHANGED <<clients, conn, routes, hub_last_hash, outgoing,
                      outgoing_data, hist>>

\* after the loop: current_index is written to the entry this call read (it
\* is still the entry of _pending_chunks only if no later
\* chunked_transfer_ack replaced it), then the call ends or waits
batch_update(s) ==
    LET t    == sc.task[s]
        mine == /\ t.tid \in DOMAIN pending_chunks
                /\ pending_chunks[t.tid].websocket = t.websocket
    IN /\ pending_chunks' =
             IF mine THEN [pending_chunks EXCEPT ![t.tid].current_index = t.end]
             ELSE pending_chunks
       /\ sc' = [sc EXCEPT !.task[s] =
             IF t.end < Len(t.chunks) THEN [t EXCEPT !.pc = "sleep"]
             ELSE NoBatch("done")]
       /\ sends' = <<>>
       /\ delivered' = <<>>
       /\ ev' = [op |-> "batch_update", task |-> s, to |-> t.websocket]
       /\ UNCHANGED <<clients, conn, routes, hub_last_hash, outgoing,
                      outgoing_data, hist>>

\* after the wait: _send_chunk_batch(transfer_id) is called again and reads
\* whatever entry _pending_chunks holds now
batch_next(s) ==
    LET st == send_chunk_batch(sc.task[s].tid, pending_chunks)
    IN /\ pending_chunks' = st.pending
       /\ sc' = [sc EXCEPT !.task[s] = st.task]
       /\ sends' = <<>>
       /\ delivered' = <<>>
       /\ ev' = [op |-> "batch_next", task |-> s, to |-> st.task.websocket]
       /\ UNCHANGED <<clients, conn, routes, hub_last_hash, outgoing,
                      outgoing_data, hist>>

---------------------------------------------------------------------------
(* SpecBatch: the hub's user copies one large file while spokes s1 and s2   *)
(* are registered; each answers the init with the chunks it needs.          *)

\* what a spoke asks for: everything, or the second half when it resumes
BatchNeeds ==
    LET n == Len(HubRelayFile) \div EngChunkSize + 1
    IN {[i \in 1..n |-> i - 1], [i \in 1..(n - 2) |-> i + 1]}

BatchSpokes == {"s1", "s2"}

InitBatch ==
    /\ cfg = [chunk_size |-> EngChunkSize, chunk_threshold |-> SpokeThreshold,
              resume_enabled |-> TRUE]
    /\ InitEngineState
    /\ InitShell
    /\ InitSpokeState
    /\ clients = BatchSpokes
    /\ conn = [s \in Sessions |-> IF s \in BatchSpokes THEN "open" ELSE "new"]
    /\ routes = EmptyDict
    /\ hub_last_hash = 0
    /\ pending_chunks = EmptyDict
    /\ InitWire
    /\ sc = [name   |-> "batch",
             task   |-> [s \in BatchSpokes |-> NoBatch("idle")],
             needed |-> [s \in BatchSpokes |-> <<>>],
             got    |-> [s \in BatchSpokes |-> {}]]

batchFrame == <<cfg, session, monitor, history, incoming, incoming_data, state_file, partial_files, reply,
                lastInit, connected, last_hash, net>>

BatchCopy ==
    /\ hist.prepared = 0
    /\ broadcast_clipboard_item(HubRelayItem)
    /\ UNCHANGED <<batchFrame, sc>>

\* the handler task of spoke s gets the spoke's chunked_transfer_ack
BatchAck(s, needed) ==
    /\ sc.task[s].pc = "idle"
    /\ RouteOrigin(TidNames[1]) = "hub"
    /\ handle_server_chunked_ack(s,
          [type |-> "chunked_transfer_ack", transfer_id |-> TidNames[1],
           needed_chunks |-> needed])
    /\ UNCHANGED batchFrame

BatchSend(s) ==
    /\ sc.task[s].pc = "send"
    /\ batch_send(s)
    /\ UNCHANGED batchFrame

BatchUpdate(s) ==
    /\ sc.task[s].pc = "update"
    /\ batch_update(s)
    /\ UNCHANGED batchFrame

BatchNext(s) ==
    /\ sc.task[s].pc = "sleep"
    /\ batch_next(s)
    /\ UNCHANGED batchFrame

NextBatch ==
    \/ BatchCopy
    \/ \E s \in BatchSpokes, needed \in BatchNeeds : BatchAck(s, needed)
    \/ \E s \in BatchSpokes : BatchSend(s)
    \/ \E s \in BatchSpokes : BatchUpdate(s)
    \/ \E s \in BatchSpokes : BatchNext(s)

SpecBatch == InitBatch /\ [][NextBatch]_vars

---------------------------------------------------------------------------
(* SpecAuth: the hub with or without a connection password; sessions open  *)
(* with any first message, or none, and then send clipboard envelopes.      *)

\* mutant: any first message that parses is accepted
PasswordMatches_Any(auth_data) == TRUE

\* auth_data.get('password') == config.connection_password; a message
\* without the key has password "none"
PasswordMatches(auth_data) == auth_data.password = cfg.connection_password

\* _handler up to the receive loop, `first` being what websocket.recv()
\* within 10 s comes to: a JSON object, something json.loads or .get raises
\* on, or no message in time
server_handler(websocket, first) ==
    IF cfg.connection_password = ""
    THEN server_register(websocket)
    ELSE IF first.kind = "json" /\ PasswordMatches(first)
    THEN /\ conn' = [conn EXCEPT ![websocket] = "open"]
         /\ clients' = clients \cup {websocket}
         /\ sends' = <<[to |-> websocket,
                        msg |-> [type |-> "auth", success |-> TRUE]]>>
         /\ delivered' = <<>>
         /\ ev' = [op |-> "hub_register", from |-> websocket]
         /\ UNCHANGED <<routes, hub_last_hash, pending_chunks, outgoing,
                        outgoing_data, hist>>
    ELSE /\ conn' = [conn EXCEPT ![websocket] = "closed"]
         /\ sends' = IF first.kind = "json"
                     THEN <<[to |-> websocket,
                             msg |-> [type |-> "auth", success |-> FALSE]]>>
                     ELSE <<>>
         /\ delivered' = <<>>
         /\ ev' = [op |-> "hub_reject", from |-> websocket]
         /\ UNCHANGED <<clients, routes, hub_last_hash, pending_chunks,
                        outgoing, outgoing_data, hist>>

\* what a new session may open with
FirstMessages ==
    {[kind |-> "json", password |-> "pw"],
     [kind |-> "json", password |-> "guess"],
     [kind |-> "json", password |-> "none"],
     [kind |-> "malformed", password |-> "none"],
     [kind |-> "timeout", password |-> "none"]}

NoFirst == [kind |-> "unset", password |-> "none"]

InitAuth ==
    /\ cfg \in {[chunk_size |-> EngChunkSize, chunk_threshold |-> SpokeThreshold,
                  resume_enabled |-> TRUE, connection_password |-> pw] :
                     pw \in {"pw", ""}}
    /\ InitEngineState
    /\ InitShell
    /\ InitSpokeState
    /\ InitHubState
    /\ InitWire
    /\ sc = [name |-> "auth", first |-> [s \in Sessions |-> NoFirst]]

\* a websocket is accepted; sessions arrive in the order of their names
AuthAccept(s, first) ==
    /\ conn[s] = "new"
    /\ \A i \in 1..Len(SessionOrder) :
          SessionOrder[i] = s => \A j \in 1..(i - 1) : conn[SessionOrder[j]] # "new"
    /\ server_handler(s, first)
    /\ sc' = [sc EXCEPT !.first[s] = first]
    /\ UNCHANGED <<cfg, session, monitor, history, incoming, incoming_data, state_file, partial_files,
                   reply, lastInit, connected, last_hash, net>>

NextAuth ==
    \/ \E s \in Sessions, first \in FirstMessages : AuthAccept(s, first)
    \/ \E s \in Sessions : HubConnectionLost(s)
    \/ \E s \in Sessions : HubUnregister(s)
    \/ \E s \in Sessions, i \in 1..2 : HubRecvClipboard(s, i)
    \/ \E s \in Sessions : HubRecvPing(s)
    \/ HubCopy(1)

SpecAuth == InitAuth /\ [][NextAuth]_vars

---------------------------------------------------------------------------
(* SpecText: a spoke and the hub, its peer on the session; one of them      *)
(* copies a text, the other one's receive path handles the envelope.        *)

\* longest text, in characters
MaxText == 5

\* two one-byte characters and a two-byte one
TextChars == {0, 1, 4}

RECURSIVE SeqsUpTo(_, _)
SeqsUpTo(S, n) ==
    IF n = 0 THEN {<<>>}
    ELSE LET shorter == SeqsUpTo(S, n - 1)
         IN shorter \cup {Append(t, c) : t \in {u \in shorter : Len(u) = n - 1},
                                         c \in S}

Texts == SeqsUpTo(TextChars, MaxText)

InitText ==
    /\ cfg = [chunk_size |-> EngChunkSize, chunk_threshold |-> SpokeThreshold,
              resume_enabled |-> TRUE]
    /\ InitEngineState
    /\ InitShell
    /\ connected = TRUE
    /\ last_hash = 0
    /\ outgoing = EmptyDict
    /\ outgoing_data = EmptyDict
    /\ hist = [emitted |-> {}, fresh |-> 0, prepared |-> 0, epoch |-> 1,
               init_epoch |-> EmptyDict, inits |-> EmptyDict]
    /\ clients = {"s1"}
    /\ conn = [s \in Sessions |-> IF s = "s1" THEN "open" ELSE "new"]
    /\ routes = EmptyDict
    /\ hub_last_hash = 0
    /\ pending_chunks = EmptyDict
    /\ InitWire
    /\ sc \in {[name |-> "text", text |-> t] : t \in Texts}

textFrame == <<cfg, session, monitor, history, incoming, incoming_data, state_file, partial_files, reply,
               lastInit, sc>>

\* the spoke's user copies the text
TextSpokeCopy ==
    /\ send_clipboard_item(from_text(sc.text))
    /\ net' = [net EXCEPT !.a2h = @ \o MsgsTo(sends', "hub")]
    /\ UNCHANGED <<textFrame, hubVars>>

\* the hub handles the spoke's envelope
TextHubRecv ==
    /\ net.a2h # <<>>
    /\ server_handle_message("s1", Head(net.a2h))
    /\ net' = [net EXCEPT !.a2h = Tail(@), !.h2a = @ \o MsgsTo(sends', "s1")]
    /\ UNCHANGED <<textFrame, connected, last_hash>>

\* the hub's user copies the text
TextHubCopy ==
    /\ broadcast_clipboard_item(from_text(sc.text))
    /\ net' = [net EXCEPT !.h2a = @ \o MsgsTo(sends', "s1")]
    /\ UNCHANGED <<textFrame, connected, last_hash>>

\* the spoke handles the hub's envelope
TextSpokeRecv ==
    /\ net.h2a # <<>>
    /\ client_handle_message(Head(net.h2a))
    /\ net' = [net EXCEPT !.h2a = Tail(@), !.a2h = @ \o MsgsTo(sends', "hub")]
    /\ UNCHANGED <<textFrame, hubVars>>

NextText ==
    \/ TextSpokeCopy
    \/ TextHubRecv
    \/ TextHubCopy
    \/ TextSpokeRecv

SpecText == InitText /\ [][NextText]_vars

---------------------------------------------------------------------------
(* SpecCodec: compress_and_encode applied to a byte string, and           *)
(* decode_and_decompress applied to what it returned.                       *)

\* longest byte string
MaxBytes == 6

ByteStrings == SeqsUpTo(0..3, MaxBytes)

InitCodec ==
    /\ cfg = [chunk_size |-> EngChunkSize, chunk_threshold |-> SpokeThreshold,
              resume_enabled |-> TRUE]
    /\ InitEngineState
    /\ InitShell
    /\ InitSpokeState
    /\ InitHubState
    /\ InitWire
    /\ sc \in {[name |-> "codec", phase |-> "input", x |-> x,
                 enc |-> <<<<>>, FALSE>>, dec |-> [ok |-> FALSE, val |-> <<>>]] :
                    x \in ByteStrings}

codecFrame == <<cfg, session, monitor, history, engineVars, ev, spokeVars, hubVars, wireVars>>

CodecEncode ==
    /\ sc.phase = "input"
    /\ sc' = [sc EXCEPT !.phase = "encoded", !.enc = compress_and_encode(sc.x)]
    /\ UNCHANGED codecFrame

CodecDecode ==
    /\ sc.phase = "encoded"
    /\ sc' = [sc EXCEPT !.phase = "decoded",
                        !.dec = decode_and_decompress(sc.enc[1], sc.enc[2])]
    /\ UNCHANGED codecFrame

NextCodec == CodecEncode \/ CodecDecode

SpecCodec == InitCodec /\ [][NextCodec]_vars

---------------------------------------------------------------------------
(* SpecPlan: one file of any content is copied, on a spoke or on the hub,  *)
(* under each configured chunk size and threshold.                          *)

\* longest file
MaxFileLen == 7
\* largest configured chunk_size
MaxChunkSize == 3

PlanFiles == SeqsUpTo(0..1, MaxFileLen)

\* configured chunk_threshold values
PlanThresholds == {2, 4}

PlanItem(data) == from_file_contents(<<FileData("f", data)>>)

InitPlan ==
    /\ cfg \in {[chunk_size |-> c, chunk_threshold |-> t, resume_enabled |-> TRUE] :
                    c \in 1..MaxChunkSize, t \in PlanThresholds}
    /\ InitEngineState
    /\ InitShell
    /\ connected = TRUE
    /\ last_hash = 0
    /\ outgoing = EmptyDict
    /\ outgoing_data = EmptyDict
    /\ hist = [emitted |-> {}, fresh |-> 0, prepared |-> 0, epoch |-> 1,
               init_epoch |-> EmptyDict, inits |-> EmptyDict]
    /\ clients = {"s1"}
    /\ conn = [s \in Sessions |-> IF s = "s1" THEN "open" ELSE "new"]
    /\ routes = EmptyDict
    /\ hub_last_hash = 0
    /\ pending_chunks = EmptyDict
    /\ InitWire
    /\ sc \in {[name |-> "plan", phase |-> "input", data |-> d] : d \in PlanFiles}

planFrame == <<cfg, session, monitor, history, incoming, incoming_data, state_file, partial_files, reply,
               lastInit, net>>

\* the spoke's user copies the file
PlanSpokeCopy ==
    /\ sc.phase = "input"
    /\ send_clipboard_item(PlanItem(sc.data))
    /\ sc' = [sc EXCEPT !.phase = "spoke"]
    /\ UNCHANGED <<planFrame, hubVars>>

\* the hub's user copies the file
PlanHubCopy ==
    /\ sc.phase = "input"
    /\ broadcast_clipboard_item(PlanItem(sc.data))
    /\ sc' = [sc EXCEPT !.phase = "hub"]
    /\ UNCHANGED <<planFrame, connected, last_hash>>

NextPlan == PlanSpokeCopy \/ PlanHubCopy

SpecPlan == InitPlan /\ [][NextPlan]_vars

---------------------------------------------------------------------------
(* SpecConn: the connection loop of the spoke (ClipboardClient._connect,    *)
(* run by the event loop of the client's thread) and a stop() call made     *)
(* from another thread.  The loop thread's reads of _running and its        *)
(* callbacks are separate steps, as they are separate statements racing     *)
(* with stop().  The hub and the network are the environment: a connection  *)
(* attempt succeeds or fails, the auth request is answered, not answered    *)
(* in time or the channel is lost, an established connection drops.         *)

\* the cap of the reconnect delay, in seconds
MaxReconnectDelay == 30

\* mutant: the delay keeps doubling
next_delay_Uncapped(delay) == delay * 2

\* _reconnect_delay after a wait
next_delay(delay) == Min(delay * 2, MaxReconnectDelay)

\* where the event loop can switch away from _connect: the awaits
Suspended == {"connecting", "auth_wait", "receiving", "sleeping"}

\* the callbacks of the client towards the UI
ConnEvent(op, events) == [op |-> op, events |-> events, wait |-> 0]

\* the loop thread moves _connect on: the loop runs, or it was told to stop
\* and the wake-up of _connect was queued ahead of the stop
LoopRuns ==
    \/ session.loop = "running"
    \/ session.loop = "stopping" /\ session.pc \notin Suspended
    \/ session.loop = "stopping" /\ ~session.grace_used

\* a step of _connect that resumes from an await uses up the one turn a
\* stopping loop still gives
Resume(s) ==
    IF session.loop = "stopping" /\ session.pc \in Suspended
    THEN [s EXCEPT !.grace_used = TRUE] ELSE s

InitConn ==
    /\ cfg \in {[chunk_size |-> EngChunkSize, chunk_threshold |-> SpokeThreshold,
                 resume_enabled |-> TRUE, connection_password |-> pw] :
                    pw \in {"pw", ""}}
    /\ InitEngineState
    /\ InitSpokeState
    /\ InitHubState
    /\ InitWire
    /\ session = NewSession
    /\ monitor = NewMonitor
    /\ history = NewHistory
    /\ sc = [name |-> "conn", stopped |-> FALSE, stop_returned |-> FALSE,
             rejected |-> FALSE, timed_out |-> FALSE, prev_wait |-> 0,
             attempts_after_stop |-> 0]

connFrame == <<cfg, monitor, history, incoming, incoming_data, state_file, partial_files,
               reply, delivered, lastInit, last_hash, outgoing, outgoing_data,
               hist, hubVars, wireVars>>

\* start(): _running is set and the thread runs _connect on a new event loop
ConnStart ==
    /\ session.pc = "idle" /\ ~session.running /\ ~sc.stopped
    /\ session' = [session EXCEPT !.running = TRUE, !.loop = "running",
                                  !.pc = "top"]
    /\ ev' = ConnEvent("start", <<>>)
    /\ UNCHANGED <<connected, sc, connFrame>>

\* while self._running
ConnTop ==
    /\ session.pc = "top" /\ LoopRuns
    /\ session' = [session EXCEPT
          !.pc = IF session.running THEN "dial" ELSE "returned",
          !.loop = IF session.running THEN @ ELSE "closed"]
    /\ ev' = ConnEvent("top", <<>>)
    /\ UNCHANGED <<connected, sc, connFrame>>

\* websockets.connect(...) is entered: a connection attempt begins
ConnDial ==
    /\ session.pc = "dial" /\ LoopRuns
    /\ session' = [session EXCEPT !.pc = "connecting"]
    /\ ev' = ConnEvent("attempt", <<>>)
    /\ sc' = [sc EXCEPT !.attempts_after_stop =
                          IF sc.stopped THEN @ + 1 ELSE @]
    /\ UNCHANGED <<connected, connFrame>>

\* the attempt succeeded: self._websocket = websocket; with a password the
\* auth request is sent and the answer awaited
ConnOpened ==
    /\ session.pc = "connecting" /\ LoopRuns
    /\ session' = [Resume(session) EXCEPT
          !.websocket = "open",
          !.pc = IF cfg.connection_password # "" THEN "auth_wait"
                 ELSE "established"]
    /\ ev' = ConnEvent("opened", <<>>)
    /\ UNCHANGED <<connected, sc, connFrame>>

\* the attempt failed: websockets.connect raised
ConnRefused ==
    /\ session.pc = "connecting" /\ LoopRuns
    /\ session' = [Resume(session) EXCEPT !.pc = "after"]
    /\ ev' = ConnEvent("refused", <<>>)
    /\ UNCHANGED <<connected, sc, connFrame>>

\* mutant: a rejected auth request goes on to the reconnect wait
connect_auth_result_Retry(auth_result) ==
    /\ session' = [Resume(session) EXCEPT
          !.pc = IF auth_result.success THEN "established" ELSE "after",
          !.websocket = IF auth_result.success THEN @ ELSE "closed"]
    /\ ev' = ConnEvent("auth_result", <<>>)

\* the answer to the auth request: on success=false on_connected(False) is
\* reported and _connect returns, which closes the websocket it was given
connect_auth_result(auth_result) ==
    /\ session' = [Resume(session) EXCEPT
          !.pc = IF auth_result.success THEN "established" ELSE "returned",
          !.websocket = IF auth_result.success THEN @ ELSE "closed",
          !.loop = IF auth_result.success THEN @ ELSE "closed"]
    /\ ev' = ConnEvent("auth_result",
                       IF auth_result.success THEN <<>>
                       ELSE <<"on_connected_false">>)

ConnAuthResult(success) ==
    /\ session.pc = "auth_wait" /\ LoopRuns
    /\ connect_auth_result([type |-> "auth", success |-> success])
    /\ sc' = [sc EXCEPT !.rejected = @ \/ ~success]
    /\ UNCHANGED <<connected, connFrame>>

\* no answer within the 10 s of asyncio.wait_for, the channel closed while
\* waiting, or an answer that is not JSON: an exception, which `except
\* Exception` of the loop catches after the websocket was closed
ConnAuthError(kind) ==
    /\ session.pc = "auth_wait" /\ LoopRuns
    /\ session' = [Resume(session) EXCEPT !.pc = "after", !.websocket = "closed"]
    /\ ev' = ConnEvent(kind, <<>>)
    /\ sc' = [sc EXCEPT !.timed_out = @ \/ kind = "auth_timeout"]
    /\ UNCHANGED <<connected, connFrame>>

\* self._connected = True; self._reconnect_delay = 1; on_connected(True)
ConnEstablished ==
    /\ session.pc = "established" /\ LoopRuns
    /\ connected' = TRUE
    /\ session' = [session EXCEPT !.reconnect_delay = 1, !.pc = "receiving"]
    /\ ev' = ConnEvent("established", <<"on_connected_true">>)
    /\ sc' = [sc EXCEPT !.prev_wait = 0]
    /\ UNCHANGED connFrame

\* the receive loop ends: the connection dropped, or stop() closed it
ConnDropped ==
    /\ session.pc = "receiving" /\ LoopRuns
    /\ session' = [Resume(session) EXCEPT !.pc = "after", !.websocket = "closed"]
    /\ ev' = ConnEvent("dropped", <<>>)
    /\ UNCHANGED <<connected, sc, connFrame>>

\* self._connected = False; self._websocket = None; on_connected(False)
ConnAfter ==
    /\ session.pc = "after" /\ LoopRuns
    /\ connected' = FALSE
    /\ session' = [session EXCEPT !.websocket = "none", !.pc = "check"]
    /\ ev' = ConnEvent("after", <<"on_connected_false">>)
    /\ UNCHANGED <<sc, connFrame>>

\* if self._running
ConnCheck ==
    /\ session.pc = "check" /\ LoopRuns
    /\ session' = [session EXCEPT
          !.pc = IF session.running THEN "announce" ELSE "top"]
    /\ ev' = ConnEvent("check", <<>>)
    /\ UNCHANGED <<connected, sc, connFrame>>

\* on_reconnecting(); await asyncio.sleep(self._reconnect_delay)
ConnWait ==
    /\ session.pc = "announce" /\ LoopRuns
    /\ session' = [session EXCEPT !.pc = "sleeping"]
    /\ ev' = [ConnEvent("wait", <<"on_reconnecting">>) EXCEPT
                 !.wait = session.reconnect_delay]
    /\ UNCHANGED <<connected, sc, connFrame>>

\* the sleep is over: self._reconnect_delay = min(self._reconnect_delay * 2, 30)
ConnWoken ==
    /\ session.pc = "sleeping" /\ LoopRuns
    /\ session' = [Resume(session) EXCEPT
          !.reconnect_delay = next_delay(@), !.pc = "top"]
    /\ ev' = ConnEvent("woken", <<>>)
    /\ sc' = [sc EXCEPT !.prev_wait = session.reconnect_delay]
    /\ UNCHANGED <<connected, connFrame>>

\* stop(), first statement: self._running = False
StopBegin ==
    /\ session.stop_pc = "idle" /\ session.pc # "idle"
    /\ session' = [session EXCEPT !.running = FALSE, !.stop_pc = "close"]
    /\ sc' = [sc EXCEPT !.stopped = TRUE]
    /\ UNCHANGED <<connected, ev, connFrame>>

\* stop(): with a websocket and a running loop, websocket.close() is handed
\* to the loop
StopClose ==
    /\ session.stop_pc = "close"
    /\ session' = [session EXCEPT
          !.websocket = IF @ = "open" /\ session.loop = "running"
                        THEN "closing" ELSE @,
          !.stop_pc = "halt"]
    /\ UNCHANGED <<connected, ev, sc, connFrame>>

\* stop(): with a running loop, loop.stop is handed to the loop; stop() returns
StopHalt ==
    /\ session.stop_pc = "halt"
    /\ session' = [session EXCEPT
          !.loop = IF @ = "running" THEN "stopping" ELSE @,
          !.stop_pc = "returned"]
    /\ sc' = [sc EXCEPT !.stop_returned = TRUE]
    /\ UNCHANGED <<connected, ev, connFrame>>

\* the loop runs loop.stop: run_until_complete gives up _connect where it
\* is suspended
LoopStopped ==
    /\ session.loop = "stopping" /\ session.pc \in Suspended
    /\ session' = [session EXCEPT !.loop = "stopped", !.pc = "abandoned"]
    /\ ev' = ConnEvent("loop_stopped", <<>>)
    /\ UNCHANGED <<connected, sc, connFrame>>

NextConn ==
    \/ ConnStart
    \/ ConnTop
    \/ ConnDial
    \/ ConnOpened
    \/ ConnRefused
    \/ \E success \in BOOLEAN : ConnAuthResult(success)
    \/ \E kind \in {"auth_timeout", "auth_closed", "auth_malformed"} :
          ConnAuthError(kind)
    \/ ConnEstablished
    \/ ConnDropped
    \/ ConnAfter
    \/ ConnCheck
    \/ ConnWait
    \/ ConnWoken
    \/ StopBegin
    \/ StopClose
    \/ StopHalt
    \/ LoopStopped

SpecConn == InitConn /\ [][NextConn]_vars

---------------------------------------------------------------------------
(* SpecCap: one engine with more transfers offered in each direction than   *)
(* max_concurrent_transfers.  The TransferQueue objects the engine creates  *)
(* (_send_queue, _receive_queue) are never passed a task: no method of the  *)
(* engine calls add, get_next or complete, and they stay empty.             *)

\* config.max_concurrent_transfers
max_concurrent_transfers == 3

\* one transfer more than the cap, in each direction
CapTids == {"c1", "c2", "c3", "c4"}

CapFile == SampleFile(2 * EngChunkSize - 1, 1)

\* each transfer is offered once, and a run exercises one direction
CapOffer(side, t) ==
    /\ sc.side = side
    /\ t \notin sc.started
    /\ sc' = [sc EXCEPT !.started = @ \cup {t}]

\* what the sending peer holds for each of its transfers
CapSenderTask == [t \in CapTids |-> NewOutgoingTask(t, "f", CapFile, EngChunkSize)]

\* TransferState values of a transfer that is under way
ActiveStates == {"pending", "transferring"}

ActiveIn(tasks) == {t \in DOMAIN tasks : tasks[t].state \in ActiveStates}

InitCap ==
    /\ cfg = [chunk_size |-> EngChunkSize, chunk_threshold |-> SpokeThreshold,
              resume_enabled |-> TRUE]
    /\ InitEngineState
    /\ InitShell
    /\ InitSpokeState
    /\ InitHubState
    /\ InitWire
    /\ \E side \in {"receive", "send"} :
          sc = [name |-> "cap", side |-> side, started |-> {}]

\* a chunked_transfer_init of the peer arrives
CapInit(t) ==
    /\ CapOffer("receive", t)
    /\ handle_transfer_init(get_transfer_init_message(CapSenderTask[t]))
    /\ UNCHANGED <<cfg, session, monitor, history, spokeVars, hubVars, wireVars>>

\* the next chunk of the peer's transfer arrives
CapChunk(t) ==
    /\ t \in DOMAIN incoming
    /\ handle_chunk_data(ChunkEnvelope(CapSenderTask[t], CapFile,
                                       incoming[t].transferred_chunks))
    /\ UNCHANGED <<cfg, session, monitor, history, sc, spokeVars, hubVars, wireVars>>

\* prepare_send of a file of the engine's own side
CapPrepare(t) ==
    /\ CapOffer("send", t)
    /\ prepare_send(t, "f", CapFile).ok
    /\ outgoing' = Put(outgoing, t, prepare_send(t, "f", CapFile).task)
    /\ outgoing_data' = Put(outgoing_data, t, CapFile)
    /\ ev' = [op |-> "prepare", tid |-> t, completed |-> <<>>]
    /\ UNCHANGED <<cfg, session, monitor, history, incoming, incoming_data, state_file,
                   partial_files, reply, delivered, lastInit, connected, last_hash,
                   hist, hubVars, wireVars>>

\* the peer acknowledges the next chunk of the engine's transfer
CapAcked(t) ==
    /\ t \in DOMAIN outgoing
    /\ outgoing[t].state \in ActiveStates
    /\ handle_chunk_ack([type |-> "chunk_ack", transfer_id |-> t,
                         chunk_index |-> outgoing[t].transferred_chunks])
    /\ UNCHANGED <<cfg, session, monitor, history, sc, incoming, incoming_data, state_file,
                   partial_files, reply, lastInit, hubVars, net>>

NextCap ==
    \/ \E t \in CapTids : CapInit(t)
    \/ \E t \in CapTids : CapChunk(t)
    \/ \E t \in CapTids : CapPrepare(t)
    \/ \E t \in CapTids : CapAcked(t)

SpecCap == InitCap /\ [][NextCap]_vars

---------------------------------------------------------------------------
(* SpecMonitor: the monitor thread of ClipboardMonitor polling a text       *)
(* clipboard while another thread calls set_content and the user copies.    *)
(* Each thread advances one statement at a time; `with self._lock` is the   *)
(* only synchronisation.  The OS clipboard is outside the lock: the monitor *)
(* reads it, and compares and assigns _last_hash, after releasing the lock. *)
(* sc.origin records who wrote the clipboard last, sc.seen_origin who had   *)
(* written what the monitor read.                                           *)

\* the texts that are copied
MonContents == {<<0>>, <<1>>}

MonEvent(op, items, origin) == [op |-> op, items |-> items, origin |-> origin]

InitMonitor ==
    /\ cfg = [chunk_size |-> EngChunkSize, chunk_threshold |-> SpokeThreshold,
              resume_enabled |-> TRUE]
    /\ InitEngineState
    /\ InitSpokeState
    /\ InitHubState
    /\ InitWire
    /\ session = NewSession
    /\ monitor = NewMonitor
    /\ history = NewHistory
    /\ sc = [name |-> "monitor", origin |-> "none", seen_origin |-> "none"]

monFrame == <<cfg, session, history, incoming, incoming_data, state_file, partial_files,
              reply, delivered, lastInit, connected, last_hash, outgoing,
              outgoing_data, hist, hubVars, wireVars>>

\* start(): the monitor thread begins _monitor_loop
MonStart ==
    /\ monitor.pc = "idle" /\ ~monitor.running
    /\ monitor' = [monitor EXCEPT !.running = TRUE, !.pc = "top"]
    /\ ev' = MonEvent("start", <<>>, "none")
    /\ UNCHANGED <<sc, monFrame>>

\* with self._lock: if self._paused: sleep, continue -- the lock is taken,
\* _paused is read and the lock is released
MonEnter ==
    /\ monitor.pc = "top" /\ monitor.lock = "free"
    /\ monitor' = [monitor EXCEPT !.pc = IF monitor.paused THEN "top" ELSE "read"]
    /\ ev' = MonEvent("enter", <<>>, "none")
    /\ UNCHANGED <<sc, monFrame>>

\* no files, no image: content = pyperclip.paste(); if content: the hash is
\* computed
MonRead ==
    /\ monitor.pc = "read"
    /\ monitor' = [monitor EXCEPT
          !.seen = monitor.clipboard,
          !.pc = IF monitor.clipboard = <<>> THEN "top" ELSE "compare"]
    /\ sc' = [sc EXCEPT !.seen_origin = sc.origin]
    /\ ev' = MonEvent("read", <<>>, "none")
    /\ UNCHANGED monFrame

\* if content_hash != self._last_hash
MonCompare ==
    /\ monitor.pc = "compare"
    /\ monitor' = [monitor EXCEPT
          !.pc = IF MD5(utf8_encode(monitor.seen)) # monitor.last_hash
                 THEN "assign" ELSE "top"]
    /\ ev' = MonEvent("compare", <<>>, "none")
    /\ UNCHANGED <<sc, monFrame>>

\* self._last_hash = content_hash; item = ClipboardItem.from_text(content)
MonAssign ==
    /\ monitor.pc = "assign"
    /\ monitor' = [monitor EXCEPT !.last_hash = MD5(utf8_encode(monitor.seen)),
                                  !.pc = "report"]
    /\ ev' = MonEvent("assign", <<>>, "none")
    /\ UNCHANGED <<sc, monFrame>>

\* self.on_change(item), then time.sleep(self.interval)
MonReport ==
    /\ monitor.pc = "report"
    /\ monitor' = [monitor EXCEPT !.pc = "top"]
    /\ ev' = MonEvent("on_change", <<from_text(monitor.seen)>>, sc.seen_origin)
    /\ UNCHANGED <<sc, monFrame>>

\* set_content(content): with self._lock: self._paused = True
SetBegin(content) ==
    /\ monitor.wpc = "idle" /\ monitor.lock = "free"
    /\ monitor' = [monitor EXCEPT !.lock = "setter", !.paused = TRUE,
                                  !.arg = content, !.wpc = "copy"]
    /\ ev' = MonEvent("set_content", <<>>, "none")
    /\ UNCHANGED <<sc, monFrame>>

\* pyperclip.copy(content)
SetCopy ==
    /\ monitor.wpc = "copy"
    /\ monitor' = [monitor EXCEPT !.clipboard = monitor.arg, !.wpc = "hash"]
    /\ sc' = [sc EXCEPT !.origin = "system"]
    /\ ev' = MonEvent("copy", <<>>, "none")
    /\ UNCHANGED monFrame

\* self._last_hash = md5(content.encode('utf-8'))
SetHash ==
    /\ monitor.wpc = "hash"
    /\ monitor' = [monitor EXCEPT !.last_hash = MD5(utf8_encode(monitor.arg)),
                                  !.wpc = "finally"]
    /\ ev' = MonEvent("hash", <<>>, "none")
    /\ UNCHANGED <<sc, monFrame>>

\* finally: self._paused = False, and the lock is released
SetEnd ==
    /\ monitor.wpc = "finally"
    /\ monitor' = [monitor EXCEPT !.paused = FALSE, !.lock = "free",
                                  !.wpc = "idle"]
    /\ ev' = MonEvent("set_done", <<>>, "none")
    /\ UNCHANGED <<sc, monFrame>>

\* the user copies a text in some application
UserCopy(content) ==
    /\ monitor.running
    /\ monitor' = [monitor EXCEPT !.clipboard = content]
    /\ sc' = [sc EXCEPT !.origin = "user"]
    /\ ev' = MonEvent("user_copy", <<>>, "none")
    /\ UNCHANGED monFrame

NextMonitor ==
    \/ MonStart
    \/ MonEnter
    \/ MonRead
    \/ MonCompare
    \/ MonAssign
    \/ MonReport
    \/ \E content \in MonContents : SetBegin(content)
    \/ SetCopy
    \/ SetHash
    \/ SetEnd
    \/ \E content \in MonContents : UserCopy(content)

SpecMonitor == InitMonitor /\ [][NextMonitor]_vars

---------------------------------------------------------------------------
(* SpecHistory: HistoryManager over its SQLite table.  A row is its id, its  *)
(* content_hash and its timestamp; content_hash is declared UNIQUE and id    *)
(* AUTOINCREMENT.  add, delete and clear each run under the manager's lock   *)
(* and commit once, so each is one step.                                     *)

\* config.max_history_items (100 in the source)
max_items == 2

\* the number of add calls of a run
MaxAdds == 4

\* the latest timestamp an item carries
MaxStamp == 2

HistHashes == {1, 2, 3}

HistItems == [content_hash : HistHashes, timestamp : 1..MaxStamp]

HistRow(id, item) ==
    [id |-> id, content_hash |-> item.content_hash, timestamp |-> item.timestamp]

\* mutant: a plain INSERT into a table without the UNIQUE constraint
insert_or_replace_Append(rows, id, item) == rows \cup {HistRow(id, item)}

\* INSERT OR REPLACE: the row that holds the content_hash is deleted, then
\* the new row is inserted under the next id
insert_or_replace(rows, id, item) ==
    {r \in rows : r.content_hash # item.content_hash} \cup {HistRow(id, item)}

\* DELETE ... WHERE id NOT IN (SELECT id ... ORDER BY timestamp DESC LIMIT ?):
\* the sets of rows that may be left; rows of equal timestamp come in an
\* order SQLite does not fix
Trimmed(rows) ==
    {K \in SUBSET rows :
        /\ Cardinality(K) = Min(max_items, Cardinality(rows))
        /\ \A k \in K, r \in rows \ K : k.timestamp >= r.timestamp}

InitHistory ==
    /\ cfg = [chunk_size |-> EngChunkSize, chunk_threshold |-> SpokeThreshold,
              resume_enabled |-> TRUE]
    /\ InitEngineState
    /\ InitShell
    /\ InitSpokeState
    /\ InitHubState
    /\ InitWire
    /\ sc = [name |-> "history", last_hash |-> 0, last_base |-> 0]

histFrame == <<cfg, session, monitor, incoming, incoming_data, state_file,
               partial_files, reply, delivered, lastInit, connected, last_hash,
               outgoing, outgoing_data, hist, hubVars, wireVars>>

\* add(item): sc.last_hash is the content_hash of the add just before, if the
\* step before was an add, and sc.last_base the number of rows before it
HistAdd(item) ==
    /\ history.seq < MaxAdds
    /\ \E K \in Trimmed(insert_or_replace(history.rows, history.seq + 1, item)) :
          history' = [rows |-> K, seq |-> history.seq + 1]
    /\ ev' = [op     |-> "add",
              item   |-> item,
              repeat |-> sc.last_hash = item.content_hash,
              base   |-> sc.last_base,
              before |-> Cardinality(history.rows)]
    /\ sc' = [sc EXCEPT !.last_hash = item.content_hash,
                        !.last_base = Cardinality(history.rows)]
    /\ UNCHANGED histFrame

\* delete(content_hash)
HistDelete(content_hash) ==
    /\ history' = [history EXCEPT
          !.rows = {r \in @ : r.content_hash # content_hash}]
    /\ ev' = [op |-> "delete", content_hash |-> content_hash]
    /\ sc' = [sc EXCEPT !.last_hash = 0]
    /\ UNCHANGED histFrame

\* clear()
HistClear ==
    /\ history' = [history EXCEPT !.rows = {}]
    /\ ev' = [op |-> "clear"]
    /\ sc' = [sc EXCEPT !.last_hash = 0]
    /\ UNCHANGED histFrame

NextHistory ==
    \/ \E item \in HistItems : HistAdd(item)
    \/ \E h \in HistHashes : HistDelete(h)
    \/ HistClear

SpecHistory == InitHistory /\ [][NextHistory]_vars

---------------------------------------------------------------------------
(* SpecSend: the sending side of one engine.  The engine prepares one file  *)
(* and is then called with acknowledgements and chunk requests for any      *)
(* index, in any order and repeatedly, for the transfer it holds and for    *)
(* ids it does not hold (never prepared, or cancelled); the peer's init of  *)
(* one incoming transfer and stray chunk envelopes arrive as well.          *)

\* the ids the calls name: o1 is prepared, t1 is the peer's, zz is nobody's
SendTids == {"o1", "t1", "zz"}

\* three chunks, the last one short
SendFile == SampleFile(3 * EngChunkSize - 1, 1)

\* what a peer would hold for a transfer of that id
SendPeerTask == [t \in SendTids |-> NewOutgoingTask(t, "f", SendFile, EngChunkSize)]

\* total_chunks of the file
SendChunks == Len(SendPeerTask["o1"].chunks)

InitSend ==
    /\ cfg = [chunk_size |-> EngChunkSize, chunk_threshold |-> SpokeThreshold,
              resume_enabled |-> TRUE]
    /\ InitEngineState
    /\ InitShell
    /\ InitSpokeState
    /\ InitHubState
    /\ InitWire
    /\ sc = [name |-> "send", prepared |-> FALSE, cancelled |-> {}]

sendRest == <<cfg, session, monitor, history, connected, last_hash, hist, hubVars, net>>

\* prepare_send of the file
SendPrepare ==
    /\ ~sc.prepared
    /\ prepare_send("o1", "f", SendFile).ok
    /\ outgoing' = Put(outgoing, "o1", prepare_send("o1", "f", SendFile).task)
    /\ outgoing_data' = Put(outgoing_data, "o1", SendFile)
    /\ sc' = [sc EXCEPT !.prepared = TRUE]
    /\ ev' = [op |-> "prepare", tid |-> "o1"]
    /\ UNCHANGED <<incoming, incoming_data, state_file, partial_files, reply,
                   delivered, lastInit, sends, sendRest>>

\* a chunk_ack arrives: mark_chunk_sent(t, i)
SendAcked(t, i) ==
    /\ t \in DOMAIN outgoing =>
          outgoing[t].transferred_chunks < outgoing[t].total_chunks + MaxExtra
    /\ handle_chunk_ack([type |-> "chunk_ack", transfer_id |-> t, chunk_index |-> i])
    /\ reply' = NoReply
    /\ UNCHANGED <<incoming, incoming_data, state_file, partial_files, lastInit,
                   sc, sendRest>>

\* get_chunk_data(t, i): reply is what it returns
SendGet(t, i) ==
    /\ reply' = IF get_chunk_data(t, i).ok THEN get_chunk_data(t, i).val ELSE NoReply
    /\ ev' = [op |-> "get", tid |-> t, idx |-> i]
    /\ UNCHANGED <<incoming, incoming_data, state_file, partial_files, delivered,
                   lastInit, outgoing, outgoing_data, sends, sc, sendRest>>

\* the peer's chunked_transfer_init of t1
SendPeerInit ==
    /\ "t1" \notin DOMAIN incoming
    /\ handle_transfer_init(get_transfer_init_message(SendPeerTask["t1"]))
    /\ UNCHANGED <<outgoing, outgoing_data, sends, sc, sendRest>>

\* a chunk_data envelope for a transfer the engine does not hold
SendStrayChunk(t, i) ==
    /\ t \notin DOMAIN incoming
    /\ handle_chunk_data(ChunkEnvelope(SendPeerTask[t], SendFile, i))
    /\ UNCHANGED <<outgoing, outgoing_data, sends, sc, sendRest>>

\* cancel_transfer(t)
SendCancel(t) ==
    /\ t \in DOMAIN outgoing \cup DOMAIN incoming
    /\ cancel_transfer(t)
    /\ outgoing' = Pop(outgoing, t)
    /\ outgoing_data' = Pop(outgoing_data, t)
    /\ sc' = [sc EXCEPT !.cancelled = @ \cup {t}]
    /\ UNCHANGED <<sends, sendRest>>

NextSend ==
    \/ SendPrepare
    \/ \E t \in SendTids, i \in 0..SendChunks : SendAcked(t, i)
    \/ \E t \in SendTids, i \in 0..SendChunks : SendGet(t, i)
    \/ SendPeerInit
    \/ \E t \in SendTids, i \in 0..(SendChunks - 1) : SendStrayChunk(t, i)
    \/ \E t \in SendTids : SendCancel(t)

SpecSend == InitSend /\ [][NextSend]_vars

---------------------------------------------------------------------------
(* SpecLoad: an engine is constructed on a transfer_state.json that may be  *)
(* damaged: the file as a whole is not JSON, or it is JSON and an entry of  *)
(* its 'incoming' object lacks a key from_dict reads.  sc.json_ok and       *)
(* sc.order are the disk's: whether json.load succeeds, and the order of    *)
(* the entries in the file.                                                 *)

LoadTids == {"t1", "zz"}

\* an entry without the keys of a task
Malformed == [malformed |-> TRUE]

\* the entry _save_state wrote for a task with the chunks `flagged` written
LoadEntry(t, flagged) ==
    LET task == NewIncomingTask(get_transfer_init_message(SendPeerTask[t]))
    IN to_dict([task EXCEPT
          !.chunks = [i \in 1..Len(task.chunks) |->
                         [task.chunks[i] EXCEPT !.transferred = (i - 1) \in flagged]],
          !.transferred_chunks = Cardinality(flagged)])

LoadEntries(t) ==
    {Malformed} \cup {LoadEntry(t, flagged) : flagged \in SUBSET (0..(SendChunks - 1))}

\* the state files on disk
LoadFiles ==
    UNION {[T -> UNION {LoadEntries(t) : t \in T}] : T \in SUBSET LoadTids}

RECURSIVE LoadLoop(_, _, _)
\* the for loop of _load_state over the entries in file order: from_dict
\* raises on a malformed entry, the except clause ends the loop, and what was
\* restored before stays
LoadLoop(order, tasks, bufs) ==
    IF order = <<>> THEN [tasks |-> tasks, bufs |-> bufs, raised |-> FALSE]
    ELSE LET tid == Head(order)
         IN IF state_file[tid] = Malformed
            THEN [tasks |-> tasks, bufs |-> bufs, raised |-> TRUE]
            ELSE LoadLoop(Tail(order),
                    Put(tasks, tid,
                        [from_dict(state_file[tid]) EXCEPT !.state = "paused"]),
                    Put(bufs, tid,
                        IF tid \in DOMAIN partial_files THEN partial_files[tid]
                        ELSE Zeros(state_file[tid].file_size)))

\* _load_state: json.load raises on a file that is not JSON, before anything
\* is restored
load_state(json_ok, order) ==
    IF ~cfg.resume_enabled \/ ~json_ok
    THEN [tasks |-> EmptyDict, bufs |-> EmptyDict, raised |-> ~json_ok]
    ELSE LoadLoop(order, EmptyDict, EmptyDict)

\* the entries of the file in an order that begins with `first`
LoadOrder(first, tids) ==
    IF tids = {} THEN <<>>
    ELSE IF first \in tids
    THEN IF tids = {first} THEN <<first>>
         ELSE <<first, CHOOSE t \in tids : t # first>>
    ELSE <<CHOOSE t \in tids : TRUE>>

InitLoad ==
    /\ cfg = [chunk_size |-> EngChunkSize, chunk_threshold |-> SpokeThreshold,
              resume_enabled |-> TRUE]
    /\ incoming = EmptyDict
    /\ incoming_data = EmptyDict
    /\ state_file \in {f \in LoadFiles :
                          \A t \in DOMAIN f : f[t] \in LoadEntries(t)}
    /\ partial_files = EmptyDict
    /\ reply = NoReply
    /\ delivered = <<>>
    /\ lastInit = EmptyDict
    /\ ev = [op |-> "start", completed |-> <<>>]
    /\ InitShell
    /\ InitSpokeState
    /\ InitHubState
    /\ InitWire
    /\ \E json_ok \in BOOLEAN, first \in LoadTids :
          sc = [name |-> "load", json_ok |-> json_ok, constructed |-> FALSE,
                order |-> LoadOrder(first, DOMAIN state_file)]

\* ChunkedTransferManager(): __init__ ends with _load_state; propagated is
\* whether the constructor raised
LoadConstruct ==
    /\ ~sc.constructed
    /\ LET got == load_state(sc.json_ok, sc.order)
       IN /\ incoming' = got.tasks
          /\ incoming_data' = got.bufs
          /\ ev' = [op |-> "load", caught |-> got.raised, propagated |-> FALSE,
                    completed |-> <<>>]
    /\ sc' = [sc EXCEPT !.constructed = TRUE]
    /\ reply' = NoReply
    /\ delivered' = <<>>
    /\ UNCHANGED <<cfg, session, monitor, history, state_file, partial_files,
                   lastInit, spokeVars, hubVars, wireVars>>

\* the peer announces a transfer to the engine that was constructed
LoadPeerInit(t) ==
    /\ sc.constructed
    /\ ev.op = "load"
    /\ handle_transfer_init(get_transfer_init_message(SendPeerTask[t]))
    /\ UNCHANGED <<cfg, session, monitor, history, sc, spokeVars, hubVars, wireVars>>

NextLoad ==
    \/ LoadConstruct
    \/ \E t \in LoadTids : LoadPeerInit(t)

SpecLoad == InitLoad /\ [][NextLoad]_vars

---------------------------------------------------------------------------
(* SpecProto: frames that are not messages of the protocol.  A frame is     *)
(* what json.loads makes of it: it raises (json_ok false), it returns a     *)
(* value that is not an object (is_object false), or it returns an object,  *)
(* whose type may be none of those the handler has a branch for.  A run     *)
(* exercises the hub or a spoke (all of SpecSpoke's steps); sc.dropped      *)
(* holds who has sent such a frame.                                         *)

NotJson == [json_ok |-> FALSE, is_object |-> FALSE, data |-> NoReply]

NotObject == [json_ok |-> TRUE, is_object |-> FALSE, data |-> NoReply]

JsonObject(data) == [json_ok |-> TRUE, is_object |-> TRUE, data |-> data]

\* frames no branch handles: not JSON, a JSON array, an object without a
\* type (data.get('type') is None), an object of a type of some later version
StrayFrames ==
    <<NotJson, NotObject, JsonObject([type |-> "none"]),
      JsonObject([type |-> "future_type"])>>

\* mutant: the hub unregisters a session that sends a frame that is not JSON
server_handle_frame_Strict(websocket, frame) ==
    IF ~frame.json_ok \/ ~frame.is_object
    THEN /\ clients' = clients \ {websocket}
         /\ conn' = [conn EXCEPT ![websocket] = "closed"]
         /\ sends' = <<>>
         /\ delivered' = <<>>
         /\ ev' = [op |-> "hub_drop", from |-> websocket, type |-> "none"]
         /\ UNCHANGED <<routes, hub_last_hash, pending_chunks, outgoing,
                        outgoing_data, hist>>
    ELSE server_handle_message(websocket, frame.data)

\* ClipboardServer._handle_message on a frame: json.loads raising
\* JSONDecodeError, or data.get raising AttributeError, ends in an except
\* clause that logs
server_handle_frame(websocket, frame) ==
    IF ~frame.json_ok \/ ~frame.is_object
    THEN /\ sends' = <<>>
         /\ delivered' = <<>>
         /\ ev' = [op |-> "hub_drop", from |-> websocket, type |-> "none"]
         /\ UNCHANGED <<hubVars, outgoing, outgoing_data, hist>>
    ELSE server_handle_message(websocket, frame.data)

\* ClipboardClient._handle_message on a frame
client_handle_frame(frame) ==
    IF ~frame.json_ok \/ ~frame.is_object
    THEN /\ sends' = <<>>
         /\ delivered' = <<>>
         /\ ev' = [op |-> "spoke_drop", type |-> "none"]
         /\ UNCHANGED <<connected, last_hash, outgoing, outgoing_data, hist>>
    ELSE client_handle_message(frame.data)

InitProto ==
    /\ cfg = [chunk_size |-> EngChunkSize, chunk_threshold |-> SpokeThreshold,
              resume_enabled |-> TRUE]
    /\ InitEngineState
    /\ InitShell
    /\ InitSpokeState
    /\ InitHubState
    /\ InitWire
    /\ \E side \in {"hub", "spoke"} :
          sc = [name |-> "proto", side |-> side, dropped |-> {}]

protoFrame == <<cfg, session, monitor, history, incoming, incoming_data,
                state_file, partial_files, reply, lastInit, net>>

\* session s sends the hub a stray frame
ProtoHubFrame(s, i) ==
    /\ sc.side = "hub"
    /\ conn[s] = "open"
    /\ server_handle_frame(s, StrayFrames[i])
    /\ sc' = [sc EXCEPT !.dropped = @ \cup {s}]
    /\ UNCHANGED <<connected, last_hash, protoFrame>>

\* the hub sends the spoke a stray frame
ProtoSpokeFrame(i) ==
    /\ sc.side = "spoke"
    /\ connected
    /\ client_handle_frame(StrayFrames[i])
    /\ sc' = [sc EXCEPT !.dropped = @ \cup {"spoke"}]
    /\ UNCHANGED <<hubVars, protoFrame>>

\* the hub's steps of a run: sessions come and go, and send clipboard
\* envelopes, pings and the init of a chunked transfer
ProtoHubStep ==
    \/ \E s \in Sessions : HubRegister(s)
    \/ \E s \in Sessions : HubConnectionLost(s)
    \/ \E s \in Sessions : HubUnregister(s)
    \/ \E s \in Sessions, i \in 1..Len(HubInbound) : HubRecvClipboard(s, i)
    \/ \E s \in Sessions : HubRecvPing(s)
    \/ \E s \in Sessions : HubRecvInit(s)

NextProto ==
    \/ sc.side = "hub" /\ ProtoHubStep
    \/ sc.side = "spoke" /\ NextSpoke
    \/ \E s \in Sessions, i \in 1..Len(StrayFrames) : ProtoHubFrame(s, i)
    \/ \E i \in 1..Len(StrayFrames) : ProtoSpokeFrame(i)

SpecProto == InitProto /\ [][NextProto]_vars

---------------------------------------------------------------------------
(* SpecFrame: the serialized length, in bytes, of the envelopes              *)
(* _send_clipboard_item and get_chunk_data build for an image or a batch of  *)
(* files of given sizes and compressibility.  Sizes are real byte counts.    *)

\* max_size of websockets.serve
MaxMessageSize == 10 * 1024 * 1024

\* config.chunk_threshold and config.chunk_size as shipped
ChunkThresholdBytes == 10 * 1024 * 1024

ChunkSizeBytes == 256 * 1024

\* compression.MIN_COMPRESS_SIZE in bytes
MinCompressBytes == 512

\* len(json.dumps(...)) of each envelope with an empty payload and the
\* shortest values of the other fields
FilesEnvelopeOverhead == 192

FileEntryOverhead == 64

ImageEnvelopeOverhead == 180

ChunkEnvelopeOverhead == 200

\* most files in one copied batch
MaxFrameFiles == 2

\* len(base64.b64encode(data)) for len(data) = n
b64encode_len(n) == 4 * ((n + 2) \div 3)

\* length of the zstd frame of n bytes whose content compresses to `percent`
\* of its size
zstd_len(n, percent) == (n * percent + 99) \div 100

\* len(compress_data(data)[0])
compress_data_len(n, percent) ==
    IF n < MinCompressBytes THEN n
    ELSE IF zstd_len(n, percent) < n THEN zstd_len(n, percent)
    ELSE n

\* len(compress_and_encode(data)[0])
compress_and_encode_len(n, percent) == b64encode_len(compress_data_len(n, percent))

needs_chunked_transfer_bytes(file_size) == file_size >= ChunkThresholdBytes

\* compressibility of a payload: highly compressible, half, incompressible
FramePercents == {1, 50, 101}

FrameSizes ==
    {1, MinCompressBytes, ChunkSizeBytes, ChunkSizeBytes + 1, MaxMessageSize \div 2,
     3 * (MaxMessageSize \div 4), ChunkThresholdBytes - 1, ChunkThresholdBytes}

FramePayloads == [size : FrameSizes, percent : FramePercents]

FrameItems ==
    {[kind |-> "image", files |-> <<p>>] : p \in FramePayloads}
        \cup {[kind |-> "files", files |-> fs] :
                 fs \in SeqsUpTo(FramePayloads, MaxFrameFiles) \ {<<>>}}

RECURSIVE SumLen(_)
SumLen(lens) == IF lens = <<>> THEN 0 ELSE Head(lens) + SumLen(Tail(lens))

\* the files of the batch sent inline / by chunked transfer
SmallFiles(files) == SelectSeq(files, LAMBDA f : ~needs_chunked_transfer_bytes(f.size))

LargeFiles(files) == SelectSeq(files, LAMBDA f : needs_chunked_transfer_bytes(f.size))

\* len(json.dumps(data)) of the clipboard envelope bundling the small files
FilesEnvelopeLen(files) ==
    FilesEnvelopeOverhead
        + SumLen([i \in 1..Len(files) |->
                     FileEntryOverhead
                         + compress_and_encode_len(files[i].size, files[i].percent)])

ImageEnvelopeLen(p) == ImageEnvelopeOverhead + compress_and_encode_len(p.size, p.percent)

\* the sizes of the chunks create_chunks cuts a file of file_size bytes into
ChunkSizesOf(file_size) ==
    (IF file_size >= ChunkSizeBytes THEN {ChunkSizeBytes} ELSE {})
        \cup (IF file_size % ChunkSizeBytes # 0 THEN {file_size % ChunkSizeBytes} ELSE {})

\* len(json.dumps(get_chunk_data(...)))
ChunkEnvelopeLen(size, percent) == ChunkEnvelopeOverhead + compress_and_encode_len(size, percent)

InitFrame ==
    /\ cfg = [chunk_size |-> EngChunkSize, chunk_threshold |-> SpokeThreshold,
              resume_enabled |-> TRUE]
    /\ InitEngineState
    /\ InitShell
    /\ InitSpokeState
    /\ InitHubState
    /\ InitWire
    /\ \E item \in FrameItems :
          sc = [name |-> "frame", item |-> item, sent |-> FALSE, frames |-> {}]

frameFrame == <<cfg, session, monitor, history, engineVars, ev, spokeVars, hubVars, wireVars>>

\* _send_clipboard_item with an image
FrameSendImage ==
    /\ ~sc.sent /\ sc.item.kind = "image"
    /\ sc' = [sc EXCEPT !.sent = TRUE,
                        !.frames = {[kind |-> "image",
                                     len  |-> ImageEnvelopeLen(sc.item.files[1])]}]
    /\ UNCHANGED frameFrame

\* _send_clipboard_item with files: one envelope for the small files, then
\* the chunk_data envelopes of every large file
FrameSendFiles ==
    /\ ~sc.sent /\ sc.item.kind = "files"
    /\ LET small == SmallFiles(sc.item.files)
           large == LargeFiles(sc.item.files)
       IN sc' = [sc EXCEPT
                   !.sent = TRUE,
                   !.frames =
                      (IF small # <<>>
                       THEN {[kind |-> "files", len |-> FilesEnvelopeLen(small)]}
                       ELSE {})
                      \cup UNION {{[kind |-> "chunk",
                                     len  |-> ChunkEnvelopeLen(s, large[i].percent)] :
                                       s \in ChunkSizesOf(large[i].size)} :
                                    i \in 1..Len(large)}]
    /\ UNCHANGED frameFrame

NextFrame == FrameSendImage \/ FrameSendFiles

SpecFrame == InitFrame /\ [][NextFrame]_vars

---------------------------------------------------------------------------
(* Claims about the receiving engine *)

\* C2: on_complete (hence on_item_received) is invoked in a step if and only
\* if that step ran the whole-file check and the MD5 of the assembled buffer
\* equals the announced file_hash; it delivers that buffer; when the check
\* fails the task is Failed, transfer_error{hash_mismatch} is returned and
\* nothing is delivered.
C2_CompletionAtomicity ==
    [][LET checked == ev'.op = "chunk" /\ ev'.checked
           matches == checked /\ MD5(ev'.buffer) = ev'.announced
       IN /\ (ev'.completed # <<>>) <=> matches
          /\ matches =>
                /\ ev'.completed = <<ev'.buffer>>
                /\ Len(delivered') = 1
                /\ Len(delivered'[1].file_contents) = 1
                /\ delivered'[1].file_contents[1].content = ev'.buffer
                /\ reply'.type = "transfer_complete"
          /\ ~matches => delivered' = <<>>
          /\ (checked /\ ~matches) =>
                /\ ev'.tid \in DOMAIN incoming'
                /\ incoming'[ev'.tid].state = "failed"
                /\ reply' = [type |-> "transfer_error", transfer_id |-> ev'.tid,
                             error |-> "hash_mismatch"]]_vars

\* C2 witness: a chunk completed a transfer and its buffer was delivered
C2_Witness ==
    /\ ev.op = "chunk" /\ ev.checked
    /\ ev.completed # <<>>
    /\ Len(delivered) = 1 /\ delivered[1].content_hash = ev.announced

\* a whole-file check that failed is reachable too
C2_MismatchReached == ev.op = "chunk" /\ ev.checked /\ ev.on_error

\* C3 as stated: of two handle_transfer_init calls with the same transfer_id
\* and file_hash and only handle_chunk_data calls in between, the second
\* needed_chunks is a subset of the first and has no index written in between.
C3_ResumeIdempotency_Original ==
    (ev.op = "init" /\ ev.has_prev) =>
        /\ ev.needed \subseteq ev.prev_needed
        /\ ev.needed \cap ev.prev_written = {}

\* C3 amended: the same, provided the engine still holds the task at the
\* second call (the transfer has not completed in between).
C3_ResumeIdempotency ==
    (ev.op = "init" /\ ev.has_prev /\ ev.resumed) =>
        /\ ev.needed \subseteq ev.prev_needed
        /\ ev.needed \cap ev.prev_written = {}

\* C3 witness: a second init after a chunk was written got a smaller list
C3_Witness ==
    /\ ev.op = "init" /\ ev.has_prev /\ ev.resumed
    /\ ev.prev_written # {}
    /\ ev.needed # ev.prev_needed
    /\ ev.needed # {}

\* C4: after an incoming transfer had all its chunks delivered and completed
\* within one process lifetime, neither its sidecar nor a transfer_state.json
\* entry for it remains.
C4_NothingRetained ==
    (/\ ev.op = "chunk" /\ ev.completed # <<>>
     /\ ev.tid \in DOMAIN lastInit
     /\ lastInit[ev.tid].needed = lastInit[ev.tid].written
     /\ lastInit[ev.tid].needed # {}
     /\ ~lastInit[ev.tid].resumed) =>
        /\ ev.tid \notin DOMAIN partial_files
        /\ ev.tid \notin DOMAIN state_file

\* C7 as stated: killed after chunks 0..k were written (written = k + 1),
\* the reply to the same init after the restart lists exactly k+1..total-1.
C7_ResumeDelta_Original ==
    (sc.name = "resume" /\ sc.phase = "send2" /\ ev.op = "init") =>
        ev.needed = sc.written..(ResumeChunks - 1)

\* C7 amended: the reply lists the indices from the last periodic save on,
\* 10 * floor((k+1)/10) .. total-1, and after the peer has sent those the
\* transfer has completed with the whole file delivered.
C7_ResumeDelta ==
    sc.name = "resume" =>
      /\ (sc.phase = "send2" /\ ev.op = "init") =>
            ev.needed = (10 * (sc.written \div 10))..(ResumeChunks - 1)
      /\ (sc.phase = "send2" /\ sc.queue = <<>>) =>
            /\ ev.op = "chunk" /\ ev.completed # <<>>
            /\ MD5(ev.buffer) = ResSenderTask[sc.file].file_hash
            /\ ev.buffer = SampleFile(ResumeChunks, sc.file)
            /\ reply.type = "transfer_complete"

\* C7 witness: killed after more than ten chunks, the transfer resumed from
\* the saved state and completed
C7_Witness ==
    /\ sc.name = "resume" /\ sc.phase = "send2" /\ sc.queue = <<>>
    /\ sc.written > 10
    /\ ev.completed # <<>>

---------------------------------------------------------------------------
(* Claims about the spoke session *)

\* C1 as stated: an inbound clipboard envelope whose content_hash is the hash
\* of a clipboard envelope this spoke emitted earlier is discarded and gives
\* no on_clipboard_received call.
C1_EchoSuppression_Original ==
    (ev.op = "recv_clipboard" /\ ev.was_emitted) =>
        /\ ~ev.delivered
        /\ delivered = <<>>

\* C1 amended: the same, provided that since that emission the spoke has had
\* no send of an item with another hash and has handled no inbound clipboard
\* envelope with another content_hash (only the last hash seen is remembered).
C1_EchoSuppression ==
    (ev.op = "recv_clipboard" /\ ev.was_fresh) =>
        /\ ~ev.delivered
        /\ delivered = <<>>
        /\ ev.outcome \in {"echo", "bad_type"}
        /\ last_hash = ev.hash

\* C1 witness: the echo of the envelope emitted last came in and was dropped
C1_Witness ==
    /\ ev.op = "recv_clipboard" /\ ev.was_fresh
    /\ ev.outcome = "echo"
    /\ ev.hash \in hist.emitted

\* C8: whenever the spoke is connected and holds an unfinished outgoing
\* transfer, the chunked_transfer_init of that transfer has been sent on the
\* current connection (so after a reconnect it was sent again).
C8_ResendOnReconnect ==
    \A tid \in DOMAIN outgoing :
        (connected /\ outgoing[tid].state # "completed") =>
            hist.init_epoch[tid] = hist.epoch

\* the chunked_transfer_init of a transfer is sent exactly once, whatever
\* happens to the connection afterwards
InitNeverRepeated ==
    /\ DOMAIN hist.inits = DOMAIN outgoing
    /\ \A tid \in DOMAIN outgoing : hist.inits[tid] = 1

---------------------------------------------------------------------------
(* Claims about the hub *)

\* the websockets the send attempts `out` were made on
SentTo(out) == {out[i].to : i \in 1..Len(out)}

\* a clipboard envelope of a known content type whose payload decodes
WellFormed(data) ==
    /\ data.content_type \in ContentTypes
    /\ ~(data.content_type = "image" /\ data.image_data = <<>>)
    /\ ReceivedItem(data).ok

\* C9: every (well-formed) clipboard envelope the hub receives from a
\* registered session S is sent, as received, to every other registered
\* client, and is not sent to S.
C9_ClipboardRelay ==
    [][(/\ ev'.op = "hub_recv" /\ ev'.type = "clipboard"
        /\ ev'.from \in clients
        /\ WellFormed(ev'.msg)) =>
            /\ SentTo(sends') = clients \ {ev'.from}
            /\ \A i \in 1..Len(sends') : sends'[i].msg = ev'.msg]_vars

\* what does hold of the clipboard branch: an envelope is never sent back to
\* its sender, and it is relayed to all other clients exactly when it is well
\* formed and its content_hash is not the hash the hub processed last
ClipboardRelayUnlessEcho ==
    [][(/\ ev'.op = "hub_recv" /\ ev'.type = "clipboard"
        /\ ev'.from \in clients) =>
            LET relayed == /\ WellFormed(ev'.msg)
                           /\ ev'.msg.content_hash # hub_last_hash
            IN /\ \A i \in 1..Len(sends') :
                     sends'[i].to # ev'.from /\ sends'[i].msg = ev'.msg
               /\ relayed => SentTo(sends') = clients \ {ev'.from}
               /\ ~relayed => sends' = <<>>]_vars

\* C10: a chunked_transfer_ack, chunk_ack or chunk_nack for a transfer whose
\* route names a spoke as origin, received from a session other than that
\* origin, is sent as received to the origin and to no other session.
C10_AckRelay ==
    [][(/\ ev'.op = "hub_recv" /\ ev'.type \in AckTypes
        /\ RouteOrigin(ev'.msg.transfer_id) \in Sessions
        /\ ev'.from # RouteOrigin(ev'.msg.transfer_id)) =>
            sends' = <<[to  |-> RouteOrigin(ev'.msg.transfer_id),
                        msg |-> ev'.msg]>>]_vars

\* C10 witness: with three sessions registered, a chunk_nack from one went to
\* the origin of the transfer only
C10_Witness ==
    /\ ev.op = "hub_recv" /\ ev.type = "chunk_nack"
    /\ clients = Sessions
    /\ RouteOrigin(ev.msg.transfer_id) \in Sessions \ {ev.from}
    /\ sends = <<[to |-> RouteOrigin(ev.msg.transfer_id), msg |-> ev.msg]>>

---------------------------------------------------------------------------
(* Claims about the relayed transfer *)

\* C5: when no chunk was damaged, the receiver has replied chunk_ack for
\* every one of the N chunks by the time it emits transfer_complete, and once
\* all messages are handled the sender has counted an acknowledgement for
\* each chunk it sent.
C5_AckPerChunk ==
    (sc.name = "relay" /\ sc.damaged = 0) =>
        /\ sc.complete_sent => sc.acked = 0..(RelayChunks - 1)
        /\ (sc.complete_sent /\ \A l \in Links : net[l] = <<>>) =>
              \A tid \in DOMAIN outgoing :
                  /\ outgoing[tid].transferred_chunks = RelayChunks
                  /\ outgoing[tid].state = "completed"

\* what the receiver does send: a chunk_ack for each chunk but the one that
\* completes the transfer, whose response is the transfer_complete itself
AckForAllButLast ==
    (sc.name = "relay" /\ sc.damaged = 0 /\ sc.complete_sent) =>
        sc.acked = 0..(RelayChunks - 2)

IsPrefix(s, t) == Len(s) <= Len(t) /\ SubSeq(t, 1, Len(s)) = s

\* C6: the chunks the origin retransmits are exactly the chunks the receiver
\* rejected, in that order; every chunk_nack of the receiver is answered by
\* the retransmission of that chunk (the retransmissions catch up with the
\* rejections again and again, and both only grow); and once the file has
\* been copied the receiver eventually completes with the whole file delivered.
C6_NackRetransmit ==
    /\ [](sc.name = "relay" => IsPrefix(sc.resent, sc.nacked))
    /\ []<>(sc.resent = sc.nacked)
    /\ (outgoing # EmptyDict) ~> (sc.done /\ incoming = EmptyDict)

\* C6 witness: a damaged chunk was rejected, retransmitted, and the transfer
\* completed with the file delivered
C6_Witness ==
    /\ sc.name = "relay"
    /\ sc.damaged >= 1
    /\ sc.nacked # <<>> /\ sc.resent = sc.nacked
    /\ sc.done
    /\ ev.op = "chunk" /\ ev.completed = <<RelayFile>>

---------------------------------------------------------------------------
(* Claims about the hub's routes and its own transfers *)

\* the messages by which the hub learns that a transfer is over
EndTypes == {"transfer_complete", "transfer_error"}

\* C11: once the hub has handled a transfer_complete or a transfer_error for
\* a transfer, no route for that transfer remains in the routes map.
C11_RouteLifecycle ==
    (ev.op = "hub_recv" /\ ev.type \in EndTypes) =>
        ev.msg.transfer_id \notin DOMAIN routes

\* what does hold: a transfer_complete removes the route
RouteDroppedOnComplete ==
    (ev.op = "hub_recv" /\ ev.type = "transfer_complete") =>
        ev.msg.transfer_id \notin DOMAIN routes

\* C12: a transfer the hub originated to a single validating spoke is
\* eventually cleaned up at the hub: the outgoing task, its retained source
\* bytes and its route are all removed.
C12_HubCleanup ==
    (outgoing # EmptyDict) ~>
        (outgoing = EmptyDict /\ outgoing_data = EmptyDict /\ routes = EmptyDict)

\* what does happen: the spoke completes and its transfer_complete removes
\* the route
HubRouteDropped ==
    (outgoing # EmptyDict) ~> (sc.done /\ routes = EmptyDict)

\* the hub's outgoing task and its source bytes are never removed
HubTaskKept ==
    (sc.name = "hubrelay" /\ hist.prepared >= 1) =>
        (DOMAIN outgoing = {TidNames[1]} /\ DOMAIN outgoing_data = {TidNames[1]})

\* the hub answered the chunk_nack it handled last by sending that chunk to
\* the websocket the chunk_nack came from
NackAnswered ==
    \E i \in 1..Len(sends) :
        /\ sends[i].to = ev.from
        /\ sends[i].msg.type = "chunk_data"
        /\ sends[i].msg.transfer_id = ev.msg.transfer_id
        /\ sends[i].msg.chunk_index = ev.msg.chunk_index

\* C13: a chunk_nack for a hub-originated transfer, from a spoke that has
\* not completed that transfer, makes the hub send that chunk to that spoke,
\* whatever the other spokes have reported.
C13_HubNack ==
    (/\ sc.name = "hubsend"
     /\ ev.op = "hub_recv" /\ ev.type = "chunk_nack"
     /\ ev.msg.transfer_id \in DOMAIN hist.init_epoch
     /\ ev.from \notin sc.completed) => NackAnswered

\* what does hold: the chunk_nack is answered as long as the hub still has
\* the route, that is until any spoke reports the transfer complete or the
\* spokes together have acknowledged every chunk index
NackAnsweredWhileRouted ==
    (/\ sc.name = "hubsend"
     /\ ev.op = "hub_recv" /\ ev.type = "chunk_nack"
     /\ RouteOrigin(ev.msg.transfer_id) = "hub") => NackAnswered

\* C14: when two spokes have each answered the hub's init with a
\* chunked_transfer_ack, then, once the batch sender has run to its end in
\* both handler tasks, each spoke has been sent every chunk index of its own
\* needed_chunks list on its own websocket.
C14_BatchPerSpoke ==
    (/\ sc.name = "batch"
     /\ \A s \in BatchSpokes : sc.task[s].pc = "done") =>
        \A s \in BatchSpokes : SeqToSet(sc.needed[s]) \subseteq sc.got[s]

\* what does hold: a spoke that answers alone, the other one not having
\* answered, is sent all it asked for
BatchAlone ==
    \A s \in BatchSpokes :
        (/\ sc.name = "batch"
         /\ sc.task[s].pc = "done"
         /\ \A o \in BatchSpokes \ {s} : sc.task[o].pc = "idle") =>
            SeqToSet(sc.needed[s]) \subseteq sc.got[s]

---------------------------------------------------------------------------
(* Claims about the hub's authentication gate *)

\* the first message of session s carried the configured password
Authenticated(s) ==
    sc.first[s].kind = "json" /\ sc.first[s].password = cfg.connection_password

\* C15: with a connection password configured, only sessions whose first
\* message carried that password are ever in the clients set, have a message
\* handled, or are sent anything but the reply to their first message; a
\* session whose first message had a wrong or no password, did not parse or
\* did not arrive in time is closed and is not a client.
C15_AuthGate ==
    (sc.name = "auth" /\ cfg.connection_password # "") =>
        /\ \A s \in clients : Authenticated(s)
        /\ ev.op = "hub_recv" => Authenticated(ev.from)
        /\ \A i \in 1..Len(sends) :
              sends[i].msg.type # "auth" => Authenticated(sends[i].to)
        /\ \A s \in Sessions :
              (sc.first[s] # NoFirst /\ ~Authenticated(s)) =>
                  (conn[s] = "closed" /\ s \notin clients)

\* C15 witness: with a password configured, one session was turned away and
\* another, authenticated, has just had a clipboard envelope relayed
C15_Witness ==
    /\ sc.name = "auth" /\ cfg.connection_password # ""
    /\ \E s \in Sessions : sc.first[s] # NoFirst /\ ~Authenticated(s)
    /\ ev.op = "hub_recv" /\ ev.type = "clipboard" /\ Authenticated(ev.from)
    /\ sends # <<>>

---------------------------------------------------------------------------
(* Claims about the session's outbound check *)

---------------------------------------------------------------------------
(* Claims about the text path and the codec *)

\* C17: the text that the receive path of the peer delivers is the text
\* that was copied, whatever its length and whether or not compression made
\* it smaller.
C17_TextRoundTrip ==
    (sc.name = "text" /\ delivered # <<>>) =>
        /\ delivered[1].content_type = "text"
        /\ delivered[1].content = sc.text

\* what does hold: the text comes through when it is sent inline or when
\* compression made it smaller
TextRoundTripInlineOrCompressed ==
    (/\ sc.name = "text" /\ delivered # <<>>
     /\ \/ Len(utf8_encode(sc.text)) <= TextInlineLimit
        \/ compress_data(utf8_encode(sc.text))[2]) =>
        /\ delivered[1].content_type = "text"
        /\ delivered[1].content = sc.text

CodecIncompressibleReached ==
    /\ sc.name = "codec" /\ sc.phase = "decoded"
    /\ Len(sc.x) >= MIN_COMPRESS_SIZE /\ ~sc.enc[2]

\* C19: the plan prepare_send records for a file has descriptors numbered
\* 0..n-1 in order, whose windows start at 0, follow one another without gap
\* or overlap and end at the file's length; every descriptor but the last has
\* size chunk_size, the last has a size in 1..chunk_size which is chunk_size
\* exactly when the length is a multiple of it; total_chunks is
\* ceil(length / chunk_size); each checksum is the MD5 of its window.
C19_ChunkPlanShape ==
    sc.name = "plan" =>
        \A t \in DOMAIN outgoing :
            LET task == outgoing[t]
                B    == outgoing_data[t]
                n    == Len(task.chunks)
                cs   == cfg.chunk_size
            IN /\ Len(B) >= cfg.chunk_threshold
               /\ task.file_size = Len(B) /\ task.chunk_size = cs
               /\ task.total_chunks = n
               /\ n = (Len(B) + cs - 1) \div cs
               /\ n >= 1
               /\ task.chunks[1].offset = 0
               /\ task.chunks[n].offset + task.chunks[n].size = Len(B)
               /\ task.chunks[n].size \in 1..cs
               /\ task.chunks[n].size = cs <=> Len(B) % cs = 0
               /\ \A i \in 1..n :
                     /\ task.chunks[i].chunk_index = i - 1
                     /\ i < n => /\ task.chunks[i].size = cs
                                 /\ task.chunks[i + 1].offset =
                                        task.chunks[i].offset + cs
                     /\ task.chunks[i].checksum =
                           MD5(SubSeq(B, task.chunks[i].offset + 1,
                                      task.chunks[i].offset + task.chunks[i].size))

\* C19 witness: a plan of several chunks whose last one is short
C19_Witness ==
    /\ sc.name = "plan"
    /\ \E t \in DOMAIN outgoing :
          /\ outgoing[t].total_chunks >= 2
          /\ outgoing[t].chunks[outgoing[t].total_chunks].size < cfg.chunk_size

\* a plan whose last chunk is full also occurs
PlanWholeMultipleReached ==
    /\ sc.name = "plan"
    /\ \E t \in DOMAIN outgoing :
          /\ outgoing[t].total_chunks >= 2
          /\ outgoing[t].chunks[outgoing[t].total_chunks].size = cfg.chunk_size

BelowThresholdInlineReached ==
    /\ sc.name = "plan" /\ sc.phase # "input"
    /\ Len(sc.data) = cfg.chunk_threshold - 1
    /\ sends # <<>> /\ sends[1].msg.type = "clipboard"

\* C21: a text whose UTF-8 encoding has TextInlineLimit bytes or fewer is sent
\* verbatim with compressed false; a longer one is sent as what
\* compress_and_encode returns for its bytes; on the spoke's send path and on
\* the hub's broadcast path alike.
C21_TextCompressionBoundary ==
    (/\ sc.name = "text" /\ ev.op \in {"send_item", "hub_copy"} /\ ev.emitted) =>
        /\ sends # <<>>
        /\ \A i \in 1..Len(sends) :
             LET msg   == sends[i].msg
                 bytes == utf8_encode(sc.text)
             IN /\ msg.type = "clipboard" /\ msg.content_type = "text"
                /\ Len(bytes) <= TextInlineLimit =>
                      (msg.content = sc.text /\ msg.compressed = FALSE)
                /\ Len(bytes) >= TextInlineLimit + 1 =>
                      <<msg.content, msg.compressed>> = compress_and_encode(bytes)

\* C21 witness: a text of exactly TextInlineLimit bytes, one of them part of
\* a two-byte character, was sent verbatim
C21_Witness ==
    /\ sc.name = "text" /\ ev.op \in {"send_item", "hub_copy"} /\ ev.emitted
    /\ Len(utf8_encode(sc.text)) = TextInlineLimit
    /\ Len(sc.text) < TextInlineLimit
    /\ sends # <<>> /\ sends[1].msg.content = sc.text /\ ~sends[1].msg.compressed

\* a text one byte over the limit went through the codec, on each path
TextOverLimitReached ==
    /\ sc.name = "text" /\ ev.op = "hub_copy" /\ ev.emitted
    /\ Len(utf8_encode(sc.text)) = TextInlineLimit + 1
    /\ sends # <<>> /\ sends[1].msg.compressed

---------------------------------------------------------------------------
(* Claims about the connection loop of the spoke *)

\* C22: once the hub has answered the auth request with success=false, the
\* spoke has reported on_connected(False), the channel is closed and _connect
\* has returned; that report stays the last thing the loop did, so there is
\* no further connection attempt and no reconnect wait.
C22_AuthRejection ==
    (sc.name = "conn" /\ sc.rejected) =>
        /\ ev = ConnEvent("auth_result", <<"on_connected_false">>)
        /\ session.websocket = "closed"
        /\ session.pc = "returned"
        /\ ~connected

\* C22 witness: the auth request was rejected while the session was running
\* and nobody had called stop()
C22_Witness ==
    /\ sc.name = "conn" /\ sc.rejected /\ ~sc.stopped /\ session.running
    /\ session.pc = "returned" /\ session.websocket = "closed"

\* C23: once the hub's answer to the auth request has not come within the
\* deadline, the channel is closed and the spoke neither waits to reconnect
\* nor makes another connection attempt.
C23_AuthTimeout ==
    (sc.name = "conn" /\ sc.timed_out) =>
        /\ session.websocket \in {"closed", "none"}
        /\ ev.op \notin {"wait", "attempt"}

\* what does hold: the timeout closes the channel and takes the path of a
\* lost connection
AuthTimeoutClosesChannel ==
    (sc.name = "conn" /\ ev.op = "auth_timeout") =>
        (session.websocket = "closed" /\ session.pc = "after")

\* C24: the reconnect delay is always one of 1, 2, 4, 8, 16, 30; a wait lasts
\* 1 s when it is the first since start or since the last successful
\* connection, and otherwise twice the wait before it, at most 30 s; every
\* wait begins with on_reconnecting.
C24_ReconnectBackoff ==
    sc.name = "conn" =>
        /\ session.reconnect_delay \in {1, 2, 4, 8, 16, 30}
        /\ session.pc = "sleeping" => ev.op = "wait"
        /\ ev.op = "wait" =>
             /\ ev.events = <<"on_reconnecting">>
             /\ ev.wait = IF sc.prev_wait = 0 THEN 1
                          ELSE Min(2 * sc.prev_wait, 30)

\* C24 witness: a wait of 30 s that follows a wait of 30 s
C24_Witness ==
    /\ sc.name = "conn" /\ ev.op = "wait"
    /\ ev.wait = 30 /\ sc.prev_wait = 30

\* a wait of 1 s after a connection that had succeeded and dropped also occurs
BackoffResetReached ==
    /\ sc.name = "conn" /\ ev.op = "wait" /\ ev.wait = 1
    /\ sc.prev_wait = 0 /\ session.reconnect_delay = 1 /\ ~connected

\* C25: after stop() has been called, the loop thread begins no connection
\* attempt and emits neither on_reconnecting nor on_connected(True).
C25_StopTerminates ==
    [][(sc.name = "conn" /\ sc.stopped /\ session'.pc # session.pc) =>
          /\ ev'.op # "attempt"
          /\ \A i \in 1..Len(ev'.events) :
                ev'.events[i] \notin {"on_reconnecting", "on_connected_true"}]_vars

\* what does hold: after stop() was called at most one more connection
\* attempt begins, and once the loop has stopped or _connect has returned
\* nothing follows
StopBoundsLoop ==
    /\ sc.name = "conn" => sc.attempts_after_stop <= 1
    /\ [][(sc.name = "conn" /\ session.pc \in {"returned", "abandoned"}) =>
             (session'.pc = session.pc /\ ev' = ev)]_vars

---------------------------------------------------------------------------
(* Claims about the engine's limits and its terminal states *)

\* C26: an engine never has more than max_concurrent_transfers outgoing
\* transfers under way, nor more than that many incoming ones.
C26_ConcurrencyCap ==
    sc.name = "cap" =>
        /\ Cardinality(ActiveIn(outgoing)) <= max_concurrent_transfers
        /\ Cardinality(ActiveIn(incoming)) <= max_concurrent_transfers

\* what does hold: every transfer is under way as soon as it is started,
\* however many there are
StartedAtOnce ==
    /\ (sc.name = "cap" /\ ev.op = "init") => ev.tid \in ActiveIn(incoming)
    /\ (sc.name = "cap" /\ ev.op = "prepare") => ev.tid \in ActiveIn(outgoing)


\* C27: after cancel_transfer returned true the task is gone and neither a
\* sidecar nor a transfer_state.json entry of it is left.
C27_CancelRemovesArtifacts ==
    (sc.name = "engine" /\ ev.op = "cancel" /\ reply.found) =>
        /\ ev.tid \notin DOMAIN incoming
        /\ ev.tid \notin DOMAIN partial_files
        /\ ev.tid \notin DOMAIN state_file

\* what does hold: the task, its buffer and its sidecar are gone
CancelRemovesTaskAndSidecar ==
    (sc.name = "engine" /\ ev.op = "cancel" /\ reply.found) =>
        /\ ev.tid \notin DOMAIN incoming
        /\ ev.tid \notin DOMAIN incoming_data
        /\ ev.tid \notin DOMAIN partial_files

\* what does hold: cancelling an unknown transfer returns false and changes
\* nothing
CancelUnknownChangesNothing ==
    [][(sc.name = "engine" /\ ev'.op = "cancel" /\ ~reply'.found) =>
          UNCHANGED <<incoming, incoming_data, partial_files, state_file>>]_vars

\* a cancelled transfer's entry is still in transfer_state.json
CancelLeavesStateEntry ==
    /\ sc.name = "engine" /\ ev.op = "cancel" /\ reply.found
    /\ ev.tid \in DOMAIN state_file


\* C28: a transfer that is Failed is not moved back to Transferring by a
\* later chunked_transfer_init with the same transfer_id and file_hash.
C28_FailedIsTerminal ==
    [][\A t \in DOMAIN incoming :
          (/\ sc.name = "engine"
           /\ incoming[t].state = "failed"
           /\ ev'.op = "init" /\ ev'.tid = t /\ ev'.resumed)
          => (t \in DOMAIN incoming' => incoming'[t].state # "transferring")]_vars

\* what does hold: the whole-file mismatch leaves the task in the engine,
\* marked Failed
MismatchMarksFailed ==
    (sc.name = "engine" /\ ev.op = "chunk" /\ ev.checked /\ ev.on_error) =>
        /\ ev.tid \in DOMAIN incoming
        /\ incoming[ev.tid].state = "failed"
        /\ reply.type = "transfer_error"

\* a transfer that failed is Transferring again and asks for chunks
FailedResumedReached ==
    /\ sc.name = "engine" /\ ev.op = "init" /\ ev.resumed
    /\ incoming[ev.tid].state = "transferring"
    /\ incoming[ev.tid].transferred_chunks >= incoming[ev.tid].total_chunks


\* TransferState values from which a transfer goes no further
TerminalStates == {"completed", "failed", "cancelled"}

\* C29: a .partial sidecar exists only for an incoming task in a non-terminal
\* state, and a task that failed terminally has neither a sidecar nor an
\* in-memory buffer left.
C29_SidecarRetention ==
    sc.name \in {"engine", "fail"} =>
        /\ \A t \in DOMAIN partial_files :
              t \in DOMAIN incoming /\ incoming[t].state \notin TerminalStates
        /\ \A t \in DOMAIN incoming :
              incoming[t].state \in TerminalStates =>
                 t \notin DOMAIN incoming_data /\ t \notin DOMAIN partial_files

\* what does hold: a sidecar on disk belongs to a task the engine holds, and
\* a transfer that completed or was cancelled leaves none
SidecarHasTask ==
    sc.name \in {"engine", "resume", "fail"} =>
        /\ \A t \in DOMAIN partial_files : t \in DOMAIN incoming
        /\ (ev.op = "cancel" \/ (ev.op = "chunk" /\ ev.completed # <<>>)) =>
              ev.tid \notin DOMAIN partial_files

\* a Failed task whose buffer is still in memory
FailedKeepsBuffer ==
    /\ sc.name \in {"engine", "fail"}
    /\ \E t \in DOMAIN incoming :
          incoming[t].state = "failed" /\ t \in DOMAIN incoming_data

\* a Failed task whose sidecar is still on disk
FailedKeepsSidecar ==
    /\ sc.name = "fail"
    /\ \E t \in DOMAIN incoming :
          incoming[t].state = "failed" /\ t \in DOMAIN partial_files


---------------------------------------------------------------------------
(* Claims about the clipboard monitor *)

\* C30: the monitor loop never calls on_change for content that set_content
\* wrote to the clipboard, however its poll interleaves with the setter.
C30_SelfWriteSuppression ==
    (sc.name = "monitor" /\ ev.op = "on_change") => ev.origin # "system"

\* what does hold: a poll never begins inside the window in which the
\* setter holds the lock
PollBeginsOutsideWindow ==
    [][(sc.name = "monitor" /\ monitor.pc = "top" /\ monitor'.pc = "read") =>
          (monitor.wpc = "idle" /\ ~monitor.paused)]_vars

\* the monitor reports a text that set_content wrote
SelfWriteReported ==
    /\ sc.name = "monitor" /\ ev.op = "on_change" /\ ev.origin = "system"
    /\ ev.items[1].content = monitor.arg


---------------------------------------------------------------------------
(* Claims about the history *)

\* C31: two consecutive adds of the same content_hash leave at most one
\* record more than before the first; no two records share a content_hash;
\* there are never more than max_items records.
C31_HistoryDedup ==
    sc.name = "history" =>
        /\ (ev.op = "add" /\ ev.repeat) =>
              Cardinality(history.rows) <= ev.base + 1
        /\ \A r1, r2 \in history.rows :
              r1.content_hash = r2.content_hash => r1 = r2
        /\ Cardinality(history.rows) <= max_items

\* the same content_hash was added twice in a row and is recorded once, under
\* the later id
C31_Witness ==
    /\ sc.name = "history" /\ ev.op = "add" /\ ev.repeat
    /\ \E r \in history.rows :
          r.content_hash = ev.item.content_hash /\ r.id = history.seq

\* an add into a full table removed an older record
HistoryTrimReached ==
    /\ sc.name = "history" /\ ev.op = "add" /\ ~ev.repeat
    /\ ev.before = max_items
    /\ Cardinality(history.rows) = max_items


---------------------------------------------------------------------------
(* Claims about the sending engine and about unknown transfers *)

\* the order of the states of an outgoing task
StateRank(state) ==
    IF state = "pending" THEN 0 ELSE IF state = "transferring" THEN 1 ELSE 2

AllMarked(task) == \A i \in 1..Len(task.chunks) : task.chunks[i].transferred

\* C32: mark_chunk_sent sets the chunk's flag, moves the task forward only
\* (Pending, Transferring, Completed), and the task is Completed only when
\* every chunk of the plan has been marked.
C32_OutgoingStateMachine ==
    [][\A t \in DOMAIN outgoing \cap DOMAIN outgoing' :
          sc.name = "send" =>
             /\ (ev'.op = "chunk_ack" /\ ev'.tid = t
                    /\ ev'.idx < Len(outgoing[t].chunks)) =>
                   outgoing'[t].chunks[ev'.idx + 1].transferred
             /\ StateRank(outgoing'[t].state) >= StateRank(outgoing[t].state)
             /\ outgoing'[t].state = "completed" => AllMarked(outgoing'[t])]_vars

\* what does hold: the flag is set, the counter grows by one, the state moves
\* forward only and is Completed from the step on in which the counter
\* reaches total_chunks
OutgoingMovesForward ==
    [][\A t \in DOMAIN outgoing \cap DOMAIN outgoing' :
          sc.name = "send" =>
             /\ (ev'.op = "chunk_ack" /\ ev'.tid = t
                    /\ ev'.idx < Len(outgoing[t].chunks)) =>
                   /\ outgoing'[t].chunks[ev'.idx + 1].transferred
                   /\ outgoing'[t].transferred_chunks =
                         outgoing[t].transferred_chunks + 1
             /\ StateRank(outgoing'[t].state) >= StateRank(outgoing[t].state)
             /\ outgoing'[t].state = "completed" <=>
                   outgoing'[t].transferred_chunks >= outgoing'[t].total_chunks]_vars

\* an outgoing task is Completed with a chunk that was never acknowledged
CompletedWithUnmarkedChunk ==
    /\ sc.name = "send"
    /\ \E t \in DOMAIN outgoing :
          outgoing[t].state = "completed" /\ ~AllMarked(outgoing[t])


DecodeErrorReached ==
    /\ sc.name = "engine" /\ ev.op = "chunk" /\ ev.outcome = "decode_error"
    /\ reply.type = "chunk_nack" /\ reply.error = "decode_error"


\* the indices whose transferred flag is false in a state-file entry
UnflaggedIn(entry) ==
    {i \in 0..(Len(entry.chunks) - 1) : ~entry.chunks[i + 1].transferred}

\* C34: a start with a readable state file restores every task listed there
\* as Paused, with its buffer the sidecar's content (file_size zero bytes
\* without a sidecar), and a following chunked_transfer_init with the same
\* transfer_id and file_hash asks for exactly the chunks not flagged
\* transferred in the state file.
C34_StartupRestore ==
    [][sc.name = "resume" =>
         /\ ev'.op = "restart" =>
               /\ DOMAIN incoming' = DOMAIN state_file
               /\ DOMAIN incoming_data' = DOMAIN state_file
               /\ \A t \in DOMAIN state_file :
                     /\ incoming'[t] = [state_file[t] EXCEPT !.state = "paused"]
                     /\ incoming_data'[t] =
                           IF t \in DOMAIN partial_files THEN partial_files[t]
                           ELSE [i \in 1..state_file[t].file_size |-> 0]
         /\ (ev.op = "restart" /\ ev'.op = "init") =>
               /\ ev'.tid \in DOMAIN state_file
               /\ ev'.resumed
               /\ ev'.needed = UnflaggedIn(state_file[ev'.tid])
               /\ reply'.needed_chunks = SetToSeq(UnflaggedIn(state_file[ev'.tid]))]_vars

\* the engine restarted on a state file with a sidecar and the init that
\* followed asked for some of the chunks, not all
C34_Witness ==
    /\ sc.name = "resume" /\ sc.phase = "send2"
    /\ ev.op = "init" /\ ev.resumed
    /\ "t1" \in DOMAIN partial_files
    /\ ev.needed # {} /\ Cardinality(ev.needed) < ResumeChunks

\* the engine restarted on a state file without a sidecar
RestoreWithoutSidecarReached ==
    /\ sc.name = "resume" /\ ev.op = "restart"
    /\ "t1" \in DOMAIN incoming /\ "t1" \notin DOMAIN partial_files
    /\ incoming["t1"].state = "paused"


\* the state file cannot be loaded completely
LoadDamaged ==
    \/ ~sc.json_ok
    \/ \E t \in DOMAIN state_file : state_file[t] = Malformed

\* C35: when transfer_state.json cannot be loaded completely, constructing
\* the engine raises nothing and the engine starts with no incoming task and
\* no buffer.
C35_CorruptStateStartsClean ==
    [][(sc.name = "load" /\ ev'.op = "load" /\ LoadDamaged) =>
          /\ ~ev'.propagated
          /\ incoming' = EmptyDict
          /\ incoming_data' = EmptyDict]_vars

\* what does hold: the constructor raises nothing, a file that is not JSON
\* restores nothing, and a malformed entry is not restored itself
DamagedLoadIsCaught ==
    [][(sc.name = "load" /\ ev'.op = "load" /\ LoadDamaged) =>
          /\ ~ev'.propagated
          /\ ev'.caught
          /\ ~sc.json_ok => (incoming' = EmptyDict /\ incoming_data' = EmptyDict)
          /\ \A t \in DOMAIN incoming' : state_file[t] # Malformed]_vars

\* an engine constructed on a damaged state file holds a restored task
PartialRestoreReached ==
    /\ sc.name = "load" /\ ev.op = "load" /\ ev.caught
    /\ incoming # EmptyDict


---------------------------------------------------------------------------
(* Claims about frames outside the protocol *)

\* the step handled a frame that is not JSON, not an object, or of a type
\* without a branch
StrayHandled ==
    \/ ev'.op \in {"hub_drop", "spoke_drop"}
    \/ ev'.op = "hub_recv" /\ ev'.type \in {"none", "future_type"}
    \/ ev'.op = "notice" /\ ev'.type \in {"none", "future_type"}

\* C36: a frame that is not valid JSON, or an envelope of unknown type, is
\* dropped: nothing is sent or relayed, the session stays open and
\* registered, last_seen_hash, the clients, the routes and the transfer
\* tasks are unchanged; a later ping of the same session is answered.
C36_ProtocolErrorsKeepSession ==
    [][sc.name = "proto" =>
         /\ StrayHandled =>
               /\ sends' = <<>>
               /\ delivered' = <<>>
               /\ UNCHANGED <<clients, conn, routes, hub_last_hash,
                              pending_chunks, connected, last_hash, outgoing,
                              outgoing_data, incoming, incoming_data>>
         /\ (ev'.op = "hub_recv" /\ ev'.type = "ping" /\ ev'.from \in sc.dropped) =>
               sends' = <<[to |-> ev'.from, msg |-> [type |-> "pong"]]>>]_vars

\* a session whose stray frame was dropped sent a clipboard envelope
\* afterwards and the hub relayed it
C36_Witness ==
    /\ sc.name = "proto" /\ sc.side = "hub"
    /\ ev.op = "hub_recv" /\ ev.type = "clipboard" /\ ev.from \in sc.dropped
    /\ sends # <<>>

\* a spoke that dropped a stray frame took a clipboard envelope afterwards
SpokeReceivesAfterDrop ==
    /\ sc.name = "proto" /\ sc.side = "spoke" /\ "spoke" \in sc.dropped
    /\ connected /\ delivered # <<>>


ChunkAfterCancelReached ==
    /\ sc.name = "send" /\ ev.op = "chunk" /\ ev.outcome = "unknown"
    /\ ev.tid = "t1" /\ "t1" \in sc.cancelled

\* a chunk was requested of a transfer that was never prepared
GetOfUnknownReached ==
    /\ sc.name = "send" /\ ev.op = "get" /\ ev.tid = "zz" /\ reply = NoReply


\* the number of chunks of `task` whose transferred flag is set
FlaggedCount(task) ==
    Cardinality({i \in 1..Len(task.chunks) : task.chunks[i].transferred})

CounterMatchesFlags(task) ==
    /\ task.transferred_chunks = FlaggedCount(task)
    /\ task.transferred_chunks <= task.total_chunks

\* C38: for every outgoing and incoming task, transferred_chunks equals the
\* number of chunks flagged transferred and never exceeds total_chunks, also
\* when a chunk is delivered or acknowledged more than once.
C38_CounterMatchesFlags ==
    /\ \A t \in DOMAIN outgoing : CounterMatchesFlags(outgoing[t])
    /\ \A t \in DOMAIN incoming : CounterMatchesFlags(incoming[t])

\* what does hold: no flag is ever cleared, so the counter is never below
\* the number of flagged chunks
CounterCoversFlags ==
    /\ \A t \in DOMAIN outgoing : outgoing[t].transferred_chunks >= FlaggedCount(outgoing[t])
    /\ \A t \in DOMAIN incoming : incoming[t].transferred_chunks >= FlaggedCount(incoming[t])

\* the same chunk was acknowledged twice and the counter passed total_chunks
CounterPassedTotal ==
    \E t \in DOMAIN outgoing : outgoing[t].transferred_chunks > outgoing[t].total_chunks


\* chunk i of the state file's entry for t is backed by the sidecar of t
SidecarHolds(t, i) ==
    LET c == state_file[t].chunks[i]
    IN /\ t \in DOMAIN partial_files
       /\ MD5(Slice(partial_files[t], c.offset, c.size)) = c.checksum

\* C39: every chunk that transfer_state.json flags as transferred has its
\* bytes in the sidecar file of its transfer, also when an init rewrote the
\* state file between two periodic saves.
C39_DurableStateConsistent ==
    \A t \in DOMAIN state_file :
        \A i \in 1..Len(state_file[t].chunks) :
            state_file[t].chunks[i].transferred => SidecarHolds(t, i)

\* what does hold: a chunk flagged in the state file is flagged in the task
\* in memory
FlaggedOnDiskWasReceived ==
    \A t \in DOMAIN state_file \cap DOMAIN incoming :
        \A i \in 1..Len(state_file[t].chunks) :
            state_file[t].chunks[i].transferred => incoming[t].chunks[i].transferred

\* the engine restarted on a state file that flags a chunk whose bytes are
\* in no sidecar: the buffer holds zeros there and the chunk is not asked again
LostChunkAfterRestart ==
    /\ ev.op = "restart"
    /\ \E t \in DOMAIN incoming \cap DOMAIN incoming_data :
          \E i \in 1..Len(incoming[t].chunks) :
              LET c == incoming[t].chunks[i]
              IN /\ c.transferred
                 /\ MD5(Slice(incoming_data[t], c.offset, c.size)) # c.checksum


(* Claims about the size of frames *)

\* C40: every envelope a session or the hub emits (the clipboard envelope
\* bundling the files below chunk_threshold, an image envelope, a chunk_data
\* envelope) serializes to at most the 10 MiB maximum message size, for every
\* file size below chunk_threshold and every compressibility.
C40_InlineFitsFrame ==
    sc.name = "frame" => \A f \in sc.frames : f.len <= MaxMessageSize

\* what does hold: chunk_data envelopes fit, and so does the envelope of
\* files whose sizes add up to at most half of the maximum message size
ChunkFramesFit ==
    sc.name = "frame" =>
        /\ \A f \in sc.frames : f.kind = "chunk" => f.len <= MaxMessageSize
        /\ (/\ sc.sent /\ sc.item.kind = "files"
            /\ SumLen([i \in 1..Len(sc.item.files) |-> sc.item.files[i].size])
                  <= MaxMessageSize \div 2)
              => \A f \in sc.frames : f.len <= MaxMessageSize

\* one incompressible file below chunk_threshold alone exceeds the limit
SingleFileOverLimit ==
    /\ sc.name = "frame" /\ sc.sent /\ sc.item.kind = "files"
    /\ Len(sc.item.files) = 1
    /\ sc.item.files[1].size < ChunkThresholdBytes
    /\ \E f \in sc.frames : f.kind = "files" /\ f.len > MaxMessageSize

\* a chunk_data envelope of a full chunk was sent
ChunkFrameReached ==
    /\ sc.name = "frame"
    /\ \E f \in sc.frames : f.kind = "chunk" /\ f.len > ChunkSizeBytes

=============================================================================
